---- MODULE Spec2Model ----
(***************************************************************************)
(* A model of the streaming tool-orchestration engine of the MCP web       *)
(* assistant (backend/mcp_agent.py, backend/main.py, backend/database.py). *)
(*                                                                         *)
(* Spec          one user turn of WebMCPAgent.chat_stream: the round loop, *)
(*               the decision call streamed from the model backend, the    *)
(*               tool executions, the transcript and the emitted events.   *)
(* FairSpec      Spec with weak fairness of every step: the backend and    *)
(*               the tools return or fail and the consumer keeps pulling.  *)
(* SpecProfiles  the model profile registry: loading the profiles from the *)
(*               environment, initialize() and get_models_info().          *)
(* SpecResolve   the registry with _get_or_create_llm_instances(): the     *)
(*               profile a turn is resolved to and the cache of bundles.   *)
(* SpecTransport a turn streamed by websocket_chat to a connection whose   *)
(*               sends may fail.                                           *)
(* SpecTools     the registration of the tools of the tool servers.        *)
(* SpecRecords   the table chat_records: the history read at the start of  *)
(*               a turn and the record saved at its end.                   *)
(* SpecSessions  the connections of ConnectionManager and the session      *)
(*               contexts kept for them.                                   *)
(* SpecSaved     the handling of one user message by websocket_chat: the   *)
(*               acknowledgement, the streamed turn and the saved record.  *)
(* FairSpecSaved SpecSaved with weak fairness of the steps of the handler. *)
(* SpecInterleaved the turns of several connections, interleaved at their  *)
(*               yields, sends, backend calls and tool calls.              *)
(***************************************************************************)
EXTENDS Integers, Sequences, FiniteSets, TLC

\* ------------------------------------------------------------------------
\* Bounds of the model and constants of the program
\* ------------------------------------------------------------------------

\* mcp_agent.py:480
max_rounds == 25

\* content pieces one decision call streams at most
MaxChunks == 1

\* tool-call requests one decision call returns at most
MaxCalls == 2

\* prior conversation records handed to a turn at most
MaxHistory == 1

\* items of LLM_PROFILES at most
MaxProfiles == 2

\* tools one tool server offers at most
MaxTools == 2

\* conversation records saved at most
MaxRecords == 3

\* main.py:280
history_limit == 10

VARIABLES
    pc,                          \* position of chat_stream
    history,                     \* argument: prior conversation records
    user_input,                  \* argument: the new user message
    events,                      \* the events yielded so far, in order
    shared_history,              \* the working transcript
    tools_messages,              \* the transcript given to the current decision call
    round_index,
    combined_response_started,
    response_started,
    buffered_chunks,
    tool_calls_check,
    content_preview,
    tool_i,                      \* enumerate() index of the request being run
    backend_calls,               \* calls made to the model backend in this turn
    invoked,                     \* tool invocations dispatched, in order
    failed_round,                \* the round whose decision call raised (0: none)
    websocket,                   \* the connection the turn is streamed to
    delivered,                   \* events of the turn sent on the connection
    ppc,                         \* position of the application's start-up
    env,                         \* os.environ, by variable name
    env_profiles,                \* the value of LLM_PROFILES, split at the commas
    llm_profiles,                \* self.llm_profiles, in insertion order
    default_profile_id,
    model_name,                  \* self.model_name
    llm,                         \* self.llm (empty: None)
    mcp_success,                 \* what initialize() returned
    models_info,                 \* what get_models_info() returned last
    llm_cache,                   \* self._llm_cache: the bundles built, with their ids
    constructed,                 \* the client constructions that succeeded, in order
    resolved,                    \* the last call of _get_or_create_llm_instances
    tools,                       \* self.tools: the names of the registered tools, in order
    used_tool_names,             \* self._used_tool_names
    returned_names,              \* what _sanitize_and_uniq_tool_name returned, in order
    servers_left,                \* the tool servers initialize() has yet to ask
    chat_records,                \* the table chat_records, in insertion order
    now,                         \* the clock of the database, in seconds
    session_id,                  \* the session of the message being handled ("": none)
    handler,                     \* per connection: the position of its websocket_chat
    peer_open,                   \* per connection: the peer has not closed it
    query_params,                \* per connection: the query parameters msid and model
    active_connections,          \* ConnectionManager.active_connections
    connection_sessions,         \* ConnectionManager.connection_sessions
    session_contexts,            \* WebMCPAgent.session_contexts
    saved,                       \* the session and msid of the records saved for turns
    turns,                       \* per connection: the turn its handler is running
    inbox                        \* per connection: the turns whose events its client received

turnVars == <<pc, history, user_input, events, shared_history, tools_messages,
              round_index, combined_response_started, response_started,
              buffered_chunks, tool_calls_check, content_preview, tool_i,
              backend_calls, invoked, failed_round>>

transportVars == <<websocket, delivered>>

profileVars == <<ppc, env, env_profiles, llm_profiles, default_profile_id, model_name,
                 llm, mcp_success, models_info, llm_cache, constructed, resolved>>

toolVars == <<tools, used_tool_names, returned_names, servers_left>>

storeVars == <<chat_records, now, session_id>>

sessionVars == <<handler, peer_open, query_params, active_connections,
                 connection_sessions, session_contexts, saved, turns, inbox>>

vars == <<turnVars, transportVars, profileVars, toolVars, storeVars, sessionVars>>

\* what chat_stream leaves alone, and what the registry leaves alone
outsideTurn == <<profileVars, transportVars, toolVars, storeVars, sessionVars>>
outsideProfiles == <<turnVars, transportVars, toolVars, storeVars, sessionVars>>

\* ------------------------------------------------------------------------
\* Values
\* ------------------------------------------------------------------------

\* names of the tools in self.tools after initialize()
ToolNames == {"search"}

\* the request shapes the backend returns: a regular one, one without an id
\* whose arguments are not JSON, and one naming a tool that differs in case,
\* with the empty string for arguments; the raw arguments are a mapping
\* ("dict", "" being the empty mapping) or a string to parse ("str")
PlainRequest == [id |-> "call_a", name |-> "search", args |-> [t |-> "dict", v |-> "q=x"]]

Requests == { PlainRequest,
              [id |-> "",       name |-> "search", args |-> [t |-> "str", v |-> "{bad"]],
              [id |-> "call_b", name |-> "Search", args |-> [t |-> "str", v |-> ""]] }

RECURSIVE SeqsUpTo(_, _)
SeqsUpTo(S, n) ==
    IF n = 0 THEN {<<>>}
    ELSE LET shorter == SeqsUpTo(S, n - 1)
         IN  shorter \cup {Append(s, x) : s \in {t \in shorter : Len(t) = n - 1}, x \in S}

RequestLists == SeqsUpTo(Requests, MaxCalls) \ {<<>>}

Pieces == {"a"}

Records == { [user_input |-> "q0", ai_response |-> "r0"],
             [user_input |-> "q1", ai_response |-> ""] }

RECURSIVE Join(_)
Join(chunks) == IF chunks = <<>> THEN "" ELSE Head(chunks) \o Join(Tail(chunks))

\* an event yielded by chat_stream
Ev(type, tool_id, tool_name, content, count) ==
    [type |-> type, tool_id |-> tool_id, tool_name |-> tool_name,
     content |-> content, count |-> count]

StatusEvent == Ev("status", "", "", "generating", 0)
StartEvent == Ev("ai_response_start", "", "", "replying", 0)
ChunkEvent(text) == Ev("ai_response_chunk", "", "", text, 0)
EndEvent(text) == Ev("ai_response_end", "", "", text, 0)
ErrorEvent == Ev("error", "", "", "request failed", 0)
ToolPlanEvent(n) == Ev("tool_plan", "", "", "plan", n)

\* a message of the transcript
Msg(role, content, tool_calls, tool_call_id, name) ==
    [role |-> role, content |-> content, tool_calls |-> tool_calls,
     tool_call_id |-> tool_call_id, name |-> name]

UserMsg(text) == Msg("user", text, <<>>, "", "")
AssistantMsg(text, calls) == Msg("assistant", text, calls, "", "")
ToolMsg(id, name, text) == Msg("tool", text, <<>>, id, name)
SystemMsg == Msg("system", "tools system prompt", <<>>, "", "")

FallbackText == "max rounds reached"
ParagraphBreak == "\n\n"

\* before initialize(): no tool is registered
NoTools ==
    /\ tools = <<>>
    /\ used_tool_names = {}
    /\ returned_names = <<>>
    /\ servers_left = <<>>

\* after initialize(): the tools of ToolNames are registered
ToolsRegistered ==
    /\ tools = <<"search">>
    /\ used_tool_names = ToolNames
    /\ returned_names = <<"search">>
    /\ servers_left = <<>>

\* an empty table chat_records, no message being handled
NoRecords ==
    /\ chat_records = <<>>
    /\ now = 0
    /\ session_id = ""

\* connections of the model
MaxConnections == 2

\* the tool exchanges of a turn run beside another
MaxExchanges == 1

Conns == 1..MaxConnections

\* a query parameter that was not given
Absent == "<absent>"

NoParams == [msid |-> Absent, model |-> Absent]

\* no turn of chat_stream for a connection
NoTurn ==
    [ pc |-> "none", session |-> "", user_input |-> "", history |-> <<>>,
      shared_history |-> <<>>, pid |-> "", exchanges |-> 0, pending |-> <<>>,
      forwarded |-> <<>> ]

\* no connection has been made
NoConnections ==
    /\ handler = [c \in Conns |-> "none"]
    /\ peer_open = [c \in Conns |-> TRUE]
    /\ query_params = [c \in Conns |-> NoParams]
    /\ active_connections = <<>>
    /\ connection_sessions = <<>>
    /\ session_contexts = <<>>
    /\ saved = {}
    /\ turns = [c \in Conns |-> NoTurn]
    /\ inbox = [c \in Conns |-> {}]

\* ------------------------------------------------------------------------
\* The model profile registry
\* ------------------------------------------------------------------------

\* an environment variable that is not set
Unset == "<unset>"

\* os.getenv(name, default)
Getenv(e, name, default) == IF e[name] = Unset THEN default ELSE e[name]

\* bool(os.getenv(name))
GetenvTruthy(e, name) == e[name] \notin {Unset, ""}

\* str.strip() on the values of the model
Strip(text) ==
    CASE text = " " -> ""
      [] text = " b" -> "b"
      [] OTHER -> text

\* str.upper() on the profile ids of the model
Upper(pid) ==
    CASE pid = "a" -> "A"
      [] pid = "b" -> "B"
      [] OTHER -> pid

\* the environments of the model
Environments ==
    [ OPENAI_API_KEY    : {Unset, "", "sk-0"},
      OPENAI_BASE_URL   : {Unset, "u0"},
      OPENAI_MODEL      : {Unset, "", "m0"},
      OPENAI_MODEL_NAME : {Unset},
      LLM_DEFAULT       : {Unset, "b", "zz"},
      LLM_DEFAULT_LABEL : {Unset},
      LLM_A_API_KEY     : {Unset, "sk-a"},
      LLM_A_MODEL       : {Unset, "m0"},
      LLM_A_BASE_URL    : {Unset, "u0"},
      LLM_A_LABEL       : {Unset},
      LLM_B_API_KEY     : {Unset, "sk-b"},
      LLM_B_MODEL       : {"m0", "m1"},
      LLM_B_BASE_URL    : {Unset},
      LLM_B_LABEL       : {Unset} ]

ProfileItems == {"a", "A", " b"}

\* the environment of a single-model installation
DefaultEnv ==
    [ OPENAI_API_KEY |-> "sk-0", OPENAI_BASE_URL |-> Unset, OPENAI_MODEL |-> "m0",
      OPENAI_MODEL_NAME |-> Unset, LLM_DEFAULT |-> Unset, LLM_DEFAULT_LABEL |-> Unset,
      LLM_A_API_KEY |-> Unset, LLM_A_MODEL |-> Unset, LLM_A_BASE_URL |-> Unset,
      LLM_A_LABEL |-> Unset, LLM_B_API_KEY |-> Unset, LLM_B_MODEL |-> "m0",
      LLM_B_BASE_URL |-> Unset, LLM_B_LABEL |-> Unset ]

\* lines 81, 128: the model name of the OPENAI_* variables
EnvModelName(e) ==
    Strip(Getenv(e, "OPENAI_MODEL", Getenv(e, "OPENAI_MODEL_NAME", "deepseek-chat")))

\* lines 123-131: the default profile
DefaultProfile(e) ==
    [ id |-> "default",
      label |-> Getenv(e, "LLM_DEFAULT_LABEL", "Default"),
      api_key |-> Strip(Getenv(e, "OPENAI_API_KEY", "")),
      base_url |-> Strip(Getenv(e, "OPENAI_BASE_URL", "")),
      model |-> EnvModelName(e) ]

\* line 135: [x.strip() for x in ids_raw.split(",") if x.strip()]
RECURSIVE ProfileIds(_)
ProfileIds(items) ==
    IF items = <<>> THEN <<>>
    ELSE (IF Strip(Head(items)) # "" THEN <<Strip(Head(items))>> ELSE <<>>)
         \o ProfileIds(Tail(items))

\* profiles[pid] = cfg on a dict that keeps its insertion order
PutProfile(profiles, cfg) ==
    IF \E k \in 1..Len(profiles) : profiles[k].id = cfg.id
    THEN [k \in 1..Len(profiles) |-> IF profiles[k].id = cfg.id THEN cfg ELSE profiles[k]]
    ELSE Append(profiles, cfg)

\* lines 135-161: the profiles of LLM_PROFILES that have a key and a model
RECURSIVE AddProfiles(_, _, _)
AddProfiles(profiles, ids, e) ==
    IF ids = <<>> THEN profiles
    ELSE LET pid == Head(ids)
             key == Strip(Getenv(e, "LLM_" \o Upper(pid) \o "_API_KEY", ""))
             model == Strip(Getenv(e, "LLM_" \o Upper(pid) \o "_MODEL", ""))
             cfg == [ id |-> pid,
                      label |-> Getenv(e, "LLM_" \o Upper(pid) \o "_LABEL", pid),
                      api_key |-> key,
                      base_url |-> Strip(Getenv(e, "LLM_" \o Upper(pid) \o "_BASE_URL", "")),
                      model |-> model ]
         IN  IF key = "" \/ model = ""
             THEN AddProfiles(profiles, Tail(ids), e)
             ELSE AddProfiles(PutProfile(profiles, cfg), Tail(ids), e)

\* lines 111-163
LoadProfiles(e, items) == AddProfiles(<<DefaultProfile(e)>>, ProfileIds(items), e)

ProfileIdSet(profiles) == {profiles[k].id : k \in 1..Len(profiles)}

ProfileOf(profiles, pid) == CHOOSE cfg \in {profiles[k] : k \in 1..Len(profiles)} : cfg.id = pid

\* lines 86-88
DefaultProfileId(e, profiles) ==
    LET wanted == Strip(Getenv(e, "LLM_DEFAULT", "default"))
        pid == IF wanted = "" THEN "default" ELSE wanted
    IN  IF pid \in ProfileIdSet(profiles) THEN pid ELSE "default"

\* cfg.get("api_key") and cfg.get("model")
Usable(cfg) == cfg.api_key # "" /\ cfg.model # ""

\* lines 253-277: the start-up configuration (empty: None)
StartupCfg(e, profiles, default_id, env_model) ==
    LET others == SelectSeq(profiles, LAMBDA cfg : cfg.id # "default" /\ Usable(cfg))
    IN  IF default_id \in ProfileIdSet(profiles) /\ Usable(ProfileOf(profiles, default_id))
        THEN {ProfileOf(profiles, default_id)}
        ELSE IF others # <<>>
        THEN {Head(others)}
        ELSE IF GetenvTruthy(e, "OPENAI_API_KEY")
        THEN {[ id |-> "",
                label |-> "",
                api_key |-> Strip(Getenv(e, "OPENAI_API_KEY", "")),
                base_url |-> Strip(Getenv(e, "OPENAI_BASE_URL", "")),
                model |-> env_model ]}
        ELSE {}

\* lines 279-283: the configuration written to the environment
StartupEnv(e, cfg) ==
    [e EXCEPT !["OPENAI_API_KEY"] = IF cfg.api_key # "" THEN cfg.api_key ELSE @,
              !["OPENAI_BASE_URL"] = IF cfg.base_url # "" THEN cfg.base_url ELSE @]

\* a signature that tells the profiles apart by their id
Signature_ById(cfg) == <<cfg.id, Strip(cfg.model)>>

\* line 190: the signature two listed profiles may not share
Signature(cfg) == <<Strip(cfg.base_url), Strip(cfg.model)>>

\* lines 186-199: the listed entries, one per signature
RECURSIVE ListModels(_, _, _, _)
ListModels(profiles, show_ids, seen_signatures, effective_default) ==
    IF show_ids = <<>> THEN <<>>
    ELSE LET pid == Head(show_ids)
             cfg == ProfileOf(profiles, pid)
         IN  IF Signature(cfg) \in seen_signatures
             THEN ListModels(profiles, Tail(show_ids), seen_signatures, effective_default)
             ELSE <<[ id |-> pid, label |-> cfg.label, model |-> cfg.model,
                      is_default |-> (pid = effective_default) ]>>
                  \o ListModels(profiles, Tail(show_ids),
                                seen_signatures \cup {Signature(cfg)}, effective_default)

\* the default profile hidden only when two or more other profiles exist
ShowIds_AboveOne(ids) ==
    LET non_default_ids == SelectSeq(ids, LAMBDA pid : pid # "default")
    IN  IF Len(non_default_ids) > 1 THEN non_default_ids ELSE ids

\* lines 169, 183: the profiles to show: the non-default ones, or the default
\* one when there is no other
ShowIds(ids) ==
    LET non_default_ids == SelectSeq(ids, LAMBDA pid : pid # "default")
    IN  IF non_default_ids # <<>> THEN non_default_ids
        ELSE IF \E k \in 1..Len(ids) : ids[k] = "default" THEN <<"default">> ELSE <<>>

\* lines 165-202
GetModelsInfo(profiles, default_id) ==
    LET ids == [k \in 1..Len(profiles) |-> profiles[k].id]
        non_default_ids == SelectSeq(ids, LAMBDA pid : pid # "default")
        effective_default ==
            IF default_id # "" /\ default_id # "default" /\ default_id \in ProfileIdSet(profiles)
            THEN default_id
            ELSE IF non_default_ids # <<>> THEN Head(non_default_ids)
            ELSE "default"
        show_ids == ShowIds(ids)
    IN  [ models |-> ListModels(profiles, show_ids, {}, effective_default),
          default |-> effective_default ]

NoModelsInfo == [models |-> <<>>, default |-> ""]

\* no call of _get_or_create_llm_instances yet
NoResolution == [requested |-> "", outcome |-> "none", pid |-> "", bundle |-> <<>>]

\* the profile ids a session asks for ("": None, no model in the session context)
RequestedIds == {"", "default", "a", "b", "zz"}

\* lines 206-208: the id of the profile a request is resolved to
ResolveId(profile_id, profiles, default_id) ==
    LET pid == IF profile_id # "" THEN profile_id ELSE default_id
    IN  IF pid \notin ProfileIdSet(profiles) THEN default_id ELSE pid

\* lines 216-222, 237-242: the environment after the clients of cfg were built:
\* the variables cfg sets are put back only where they had a value before
ResolveEnv(e, cfg) ==
    [e EXCEPT !["OPENAI_API_KEY"] = IF @ = Unset /\ cfg.api_key # "" THEN cfg.api_key ELSE @,
              !["OPENAI_BASE_URL"] = IF @ = Unset /\ cfg.base_url # "" THEN cfg.base_url ELSE @]

\* lines 224-244: the bundle built for cfg, the n-th construction of the process
Bundle(e, cfg, n) ==
    [ model |-> cfg.model,
      api_key |-> IF cfg.api_key # "" THEN cfg.api_key ELSE Getenv(e, "OPENAI_API_KEY", ""),
      base_url |-> IF cfg.base_url # "" THEN cfg.base_url ELSE Getenv(e, "OPENAI_BASE_URL", ""),
      serial |-> n ]

\* lines 210-211: the cached bundle of pid (empty: none)
Cached(cache, pid) == {entry.bundle : entry \in {c \in cache : c.pid = pid}}

\* lines 204-246: _get_or_create_llm_instances(profile_id)
GetOrCreateLlmInstances(profile_id) ==
    LET pid == ResolveId(profile_id, llm_profiles, default_profile_id)
        cfg == ProfileOf(llm_profiles, pid)
        bundle == Bundle(env, cfg, Len(constructed) + 1)
    IN  \/ /\ Cached(llm_cache, pid) # {}
           /\ \E cached \in Cached(llm_cache, pid) :
                 resolved' = [requested |-> profile_id, outcome |-> "returned",
                              pid |-> pid, bundle |-> <<cached>>]
           /\ UNCHANGED <<llm_cache, constructed, env>>
        \/ /\ Cached(llm_cache, pid) = {}
           /\ \/ /\ llm_cache' = {c \in llm_cache : c.pid # pid}
                                  \cup {[pid |-> pid, bundle |-> bundle]}
                 /\ constructed' = Append(constructed, [pid |-> pid, by |-> "resolve"])
                 /\ resolved' = [requested |-> profile_id, outcome |-> "returned",
                                  pid |-> pid, bundle |-> <<bundle>>]
              \/ \* ChatOpenAI or bind_tools raises
                 /\ resolved' = [requested |-> profile_id, outcome |-> "raised",
                                  pid |-> pid, bundle |-> <<>>]
                 /\ UNCHANGED <<llm_cache, constructed>>
           /\ env' = ResolveEnv(env, cfg)

\* line 468: the call made at the start of a turn, for any profile id a session
\* may ask for
Resolve ==
    /\ ppc = "running"
    /\ \E profile_id \in RequestedIds : GetOrCreateLlmInstances(profile_id)
    /\ UNCHANGED <<ppc, env_profiles, llm_profiles, default_profile_id, model_name,
                   llm, mcp_success, models_info>>
    /\ UNCHANGED outsideProfiles

\* main.py lines 97-103 with WebMCPAgent.__init__ and initialize(): the
\* application starts only when initialize() returned True
Lifespan ==
    /\ ppc = "boot"
    /\ LET profiles == LoadProfiles(env, env_profiles)
           default_id == DefaultProfileId(env, profiles)
           startup_cfg == StartupCfg(env, profiles, default_id, EnvModelName(env))
       IN  /\ llm_profiles' = profiles
           /\ default_profile_id' = default_id
           /\ model_name' = EnvModelName(env)
           /\ \/ /\ startup_cfg = {}
                 /\ mcp_success' = FALSE
                 /\ UNCHANGED <<env, llm, constructed>>
              \/ \E cfg \in startup_cfg :
                    /\ env' = StartupEnv(env, cfg)
                    \* lines 285-393: all of it succeeds, or the client or the
                    \* connection to the tool servers raises
                    /\ \/ /\ llm' = <<[model |-> cfg.model]>>
                          /\ constructed' = Append(constructed, [pid |-> cfg.id, by |-> "initialize"])
                          /\ mcp_success' \in BOOLEAN
                       \/ /\ llm' = llm
                          /\ constructed' = constructed
                          /\ mcp_success' = FALSE
    /\ ppc' = IF mcp_success' THEN "running" ELSE "refused"
    /\ UNCHANGED <<env_profiles, models_info, llm_cache, resolved>>
    /\ UNCHANGED outsideProfiles

\* main.py /api/models: get_models_info() of the running application
ModelsInfo ==
    /\ ppc = "running"
    /\ models_info' = GetModelsInfo(llm_profiles, default_profile_id)
    /\ UNCHANGED <<ppc, env, env_profiles, llm_profiles, default_profile_id, model_name,
                   llm, mcp_success, llm_cache, constructed, resolved>>
    /\ UNCHANGED outsideProfiles

\* ------------------------------------------------------------------------
\* chat_stream
\* ------------------------------------------------------------------------

\* an assistant message for every record, whatever its answer
RECURSIVE BuildHistory_AlwaysAssistant(_)
BuildHistory_AlwaysAssistant(h) ==
    IF h = <<>> THEN <<>>
    ELSE LET record == Head(h)
         IN  <<UserMsg(record.user_input), AssistantMsg(record.ai_response, <<>>)>>
             \o BuildHistory_AlwaysAssistant(Tail(h))

RECURSIVE BuildHistory(_)
BuildHistory(h) ==
    IF h = <<>> THEN <<>>
    ELSE LET record == Head(h)
         IN  <<UserMsg(record.user_input)>>
             \o (IF record.ai_response # "" THEN <<AssistantMsg(record.ai_response, <<>>)>> ELSE <<>>)
             \o BuildHistory(Tail(h))

\* tool_call.get('id') or f"call_{i}"
ToolId(call, i) == IF call.id # "" THEN call.id ELSE "call_" \o ToString(i)

\* arguments that do not parse are dropped
ParseArgs_DropsRaw(raw) ==
    IF raw.t = "dict" THEN raw ELSE [t |-> "dict", v |-> ""]

\* lines 559-574: `or {}` makes the empty string the empty mapping, a string
\* goes through json.loads, a mapping is kept
ParseArgs(raw) ==
    IF raw.t = "str"
    THEN IF raw.v = "" THEN [t |-> "dict", v |-> ""]
         ELSE IF raw.v \in {"{bad"} THEN [t |-> "dict", v |-> "$raw=" \o raw.v]
         ELSE [t |-> "dict", v |-> raw.v]
    ELSE IF raw.t = "dict" THEN raw
    ELSE [t |-> "dict", v |-> "$raw=" \o raw.v]

NotFoundMsg(name) == "tool not found: " \o name
RaisedMsg == "tool execution failed: boom"
ErrorResult(msg) == "error: " \o msg
OkResult == "42"

\* the loop test taken one round too far
LoopCondition_OffByOne(r) == r <= max_rounds

\* line 484: the loop test
LoopCondition(r) == r < max_rounds

\* str.lower() on the names of the model
Lower(name) == IF name = "Search" THEN "search" ELSE name

\* a lookup that ignores case
FindTool_IgnoreCase(tool_name) == {tool \in ToolNames : Lower(tool) = Lower(tool_name)}

\* lines 579-583: the exact, case-sensitive lookup in self.tools (empty: None)
FindTool(tool_name) == {tool \in ToolNames : tool = tool_name}

\* the tool message appended only for a call that succeeded
ToolMessages_OnlyOnSuccess(tool_id, tool_name, tool_result) ==
    IF tool_result = OkResult THEN <<ToolMsg(tool_id, tool_name, tool_result)>> ELSE <<>>

\* lines 599-606: the tool message of a call, appended whatever the outcome
ToolMessages(tool_id, tool_name, tool_result) == <<ToolMsg(tool_id, tool_name, tool_result)>>

\* an answer that was streamed already is left without its closing event
FinishEvents_NoEnd(started, final_text) ==
    IF started
    THEN <<>>
    ELSE <<StartEvent>>
         \o (IF final_text # "" THEN <<ChunkEvent(final_text)>> ELSE <<>>)
         \o <<EndEvent("")>>

\* an answer that was not streamed is closed without having been opened
FinishEvents_EndOnly(started, final_text) ==
    IF started
    THEN <<EndEvent("")>>
    ELSE (IF final_text # "" THEN <<ChunkEvent(final_text)>> ELSE <<>>)
         \o <<EndEvent("")>>

\* the whole text sent once more before the closing event
FinishEvents_Resend(started, final_text) ==
    (IF started THEN <<>> ELSE <<StartEvent>>)
    \o (IF final_text # "" THEN <<ChunkEvent(final_text)>> ELSE <<>>)
    \o <<EndEvent("")>>

\* lines 621-634: the events that close the answer
FinishEvents(started, final_text) ==
    IF started
    THEN <<EndEvent("")>>
    ELSE <<StartEvent>>
         \o (IF final_text # "" THEN <<ChunkEvent(final_text)>> ELSE <<>>)
         \o <<EndEvent("")>>

\* the loop goes on after the answer
AfterAnswer_NoReturn == "loop"

\* line 635: return
AfterAnswer == "done"

\* a generator that runs on without being iterated
Pulled_Eager == TRUE

\* main.py line 284: an async generator runs from one yield to the next only
\* when its consumer asks for the next event; websocket_chat asks after it has
\* sent the event before, and not again once it has left the loop
Pulled ==
    \/ websocket = "none"
    \/ websocket = "connected" /\ delivered = Len(events)

Init ==
    /\ pc = "init"
    /\ history \in SeqsUpTo(Records, MaxHistory)
    /\ user_input = "q"
    /\ events = <<>>
    /\ shared_history = <<>>
    /\ tools_messages = <<>>
    /\ round_index = 0
    /\ combined_response_started = FALSE
    /\ response_started = FALSE
    /\ buffered_chunks = <<>>
    /\ tool_calls_check = <<>>
    /\ content_preview = ""
    /\ tool_i = 0
    /\ backend_calls = 0
    /\ invoked = <<>>
    /\ failed_round = 0
    /\ websocket = "none"
    /\ delivered = 0
    /\ ppc = "running"
    /\ env = DefaultEnv
    /\ env_profiles = <<>>
    /\ llm_profiles = LoadProfiles(DefaultEnv, <<>>)
    /\ default_profile_id = DefaultProfileId(DefaultEnv, LoadProfiles(DefaultEnv, <<>>))
    /\ model_name = EnvModelName(DefaultEnv)
    /\ llm = <<[model |-> EnvModelName(DefaultEnv)]>>
    /\ mcp_success = TRUE
    /\ models_info = NoModelsInfo
    /\ llm_cache = {}
    /\ constructed = <<>>
    /\ resolved = NoResolution
    /\ ToolsRegistered
    /\ NoRecords
    /\ NoConnections

\* lines 451-483: the status event, the client bundle of the session's
\* profile and the working transcript
Start ==
    /\ UNCHANGED outsideTurn
    /\ Pulled
    /\ UNCHANGED failed_round
    /\ pc = "init"
    /\ events' = Append(events, StatusEvent)
    /\ shared_history' = BuildHistory(history) \o <<UserMsg(user_input)>>
    /\ round_index' = 0
    /\ combined_response_started' = FALSE
    /\ pc' = "loop"
    /\ UNCHANGED <<history, user_input, tools_messages, response_started,
                   buffered_chunks, tool_calls_check, content_preview, tool_i,
                   backend_calls, invoked>>

\* lines 468, 644-649: building the client bundle raises
StartFail ==
    /\ UNCHANGED outsideTurn
    /\ Pulled
    /\ UNCHANGED failed_round
    /\ pc = "init"
    /\ events' = events \o <<StatusEvent, ErrorEvent>>
    /\ pc' = "done"
    /\ UNCHANGED <<history, user_input, shared_history, tools_messages, round_index,
                   combined_response_started, response_started, buffered_chunks,
                   tool_calls_check, content_preview, tool_i, backend_calls, invoked>>

\* lines 484-495: the loop test and the start of the decision call
BeginRound ==
    /\ UNCHANGED outsideTurn
    /\ Pulled
    /\ UNCHANGED failed_round
    /\ pc = "loop"
    /\ LoopCondition(round_index)
    /\ round_index' = round_index + 1
    /\ tools_messages' = <<SystemMsg>> \o shared_history
    /\ tool_calls_check' = <<>>
    /\ buffered_chunks' = <<>>
    /\ content_preview' = ""
    /\ response_started' = FALSE
    /\ backend_calls' = backend_calls + 1
    /\ pc' = "decide"
    /\ UNCHANGED <<history, user_input, events, shared_history,
                   combined_response_started, tool_i, invoked>>

\* lines 497-517: a content piece of the decision stream
StreamChunk ==
    /\ UNCHANGED outsideTurn
    /\ Pulled
    /\ UNCHANGED failed_round
    /\ pc = "decide"
    /\ Len(buffered_chunks) < MaxChunks
    /\ \E content_piece \in Pieces :
        /\ events' = events
                     \o (IF ~combined_response_started THEN <<StartEvent>> ELSE <<>>)
                     \o <<ChunkEvent(content_piece)>>
        /\ buffered_chunks' = Append(buffered_chunks, content_piece)
    /\ combined_response_started' = TRUE
    /\ response_started' = TRUE
    /\ UNCHANGED <<pc, history, user_input, shared_history, tools_messages, round_index,
                   tool_calls_check, content_preview, tool_i, backend_calls, invoked>>

\* The backend's behaviour is unrestricted in the first round and in the last
\* round before the limit; in the rounds between, a tool request is the single
\* regular request, made without streamed content, and only while every
\* earlier round was of that kind.
Rich(r) == r = 1 \/ r = max_rounds

PlainSoFar(h) ==
    \A k \in 1..Len(h) :
        /\ h[k].role = "tool" => h[k].content = OkResult
        /\ (h[k].role = "assistant" /\ h[k].tool_calls # <<>>) => h[k].tool_calls = <<PlainRequest>>

\* lines 518-528: on_chat_model_end with the final output
StreamEnd ==
    /\ UNCHANGED outsideTurn
    /\ Pulled
    /\ UNCHANGED failed_round
    /\ pc = "decide"
    /\ \E calls \in RequestLists \cup {<<>>} :
        /\ calls # <<>> =>
              \/ Rich(round_index)
              \/ /\ calls = <<PlainRequest>>
                 /\ buffered_chunks = <<>>
                 /\ PlainSoFar(shared_history)
        /\ tool_calls_check' = calls
        /\ \E preview \in {Join(buffered_chunks)}
                          \cup (IF buffered_chunks = <<>> /\ calls = <<>> THEN {"final"} ELSE {}) :
              content_preview' = preview
    /\ pc' = "decided"
    /\ UNCHANGED <<history, user_input, events, shared_history, tools_messages, round_index,
                   combined_response_started, response_started, buffered_chunks, tool_i,
                   backend_calls, invoked>>

\* lines 529-532: the decision call raises
StreamFail ==
    /\ UNCHANGED outsideTurn
    /\ Pulled
    /\ pc = "decide"
    /\ tool_calls_check' = <<>>
    /\ content_preview' = ""
    /\ failed_round' = round_index
    /\ pc' = "decided"
    /\ UNCHANGED <<history, user_input, events, shared_history, tools_messages, round_index,
                   combined_response_started, response_started, buffered_chunks, tool_i,
                   backend_calls, invoked>>

\* a paragraph break before every plan
PlanEvents_AlwaysBreak(started, chunks, n) ==
    <<ChunkEvent(ParagraphBreak), ToolPlanEvent(n)>>

\* lines 536-541: the paragraph break, when this decision call streamed
\* content, and the plan
PlanEvents(started, chunks, n) ==
    (IF started /\ chunks # <<>> THEN <<ChunkEvent(ParagraphBreak)>> ELSE <<>>)
    \o <<ToolPlanEvent(n)>>

\* lines 534-553: the paragraph break, the plan and the assistant message
PlanTools ==
    /\ UNCHANGED outsideTurn
    /\ Pulled
    /\ UNCHANGED failed_round
    /\ pc = "decided"
    /\ tool_calls_check # <<>>
    /\ events' = events
                 \o PlanEvents(response_started, buffered_chunks, Len(tool_calls_check))
    /\ buffered_chunks' = <<>>
    /\ shared_history' = Append(shared_history, AssistantMsg("", tool_calls_check))
    /\ tool_i' = 1
    /\ pc' = "tools"
    /\ UNCHANGED <<history, user_input, tools_messages, round_index,
                   combined_response_started, response_started, tool_calls_check,
                   content_preview, backend_calls, invoked>>

\* the requests taken from the last to the first
tool_call_Reversed == tool_calls_check[Len(tool_calls_check) + 1 - tool_i]

\* line 554: for i, tool_call in enumerate(tool_calls_to_run, 1)
tool_call == tool_calls_check[tool_i]

\* the tool_start event with the id as the request gave it
ToolStartEvent_RawId ==
    Ev("tool_start", tool_call.id, tool_call.name, ParseArgs(tool_call.args).v, 0)

\* line 576: the tool_start event of the request
ToolStartEvent ==
    Ev("tool_start", ToolId(tool_call, tool_i), tool_call.name, ParseArgs(tool_call.args).v, 0)

\* lines 554-576: the head of one iteration of the tool loop, up to the
\* tool_start event
AnnounceTool ==
    /\ UNCHANGED outsideTurn
    /\ Pulled
    /\ UNCHANGED failed_round
    /\ pc = "tools"
    /\ events' = Append(events, ToolStartEvent)
    /\ pc' = "invoke"
    /\ UNCHANGED <<history, user_input, shared_history, tools_messages, round_index,
                   combined_response_started, response_started, buffered_chunks,
                   tool_calls_check, content_preview, tool_i, backend_calls, invoked>>

\* lines 578-616: the rest of the iteration: the lookup, the invocation, its
\* event and the tool message
RunTool ==
    /\ UNCHANGED outsideTurn
    /\ Pulled
    /\ UNCHANGED failed_round
    /\ pc = "invoke"
    /\ LET tool_id == ToolId(tool_call, tool_i)
           tool_name == tool_call.name
       IN  \/ /\ FindTool(tool_name) = {}
              /\ events' = Append(events, Ev("tool_error", tool_id, "", NotFoundMsg(tool_name), 0))
              /\ shared_history' = shared_history
                                    \o ToolMessages(tool_id, tool_name, ErrorResult(NotFoundMsg(tool_name)))
              /\ UNCHANGED invoked
           \/ \E target_tool \in FindTool(tool_name) :
                 \/ /\ invoked' = Append(invoked, [name |-> target_tool, tool_id |-> tool_id,
                                                     raised |-> FALSE])
                    /\ events' = Append(events, Ev("tool_end", tool_id, tool_name, OkResult, 0))
                    /\ shared_history' = shared_history \o ToolMessages(tool_id, tool_name, OkResult)
                 \/ /\ Rich(round_index)
                    /\ invoked' = Append(invoked, [name |-> target_tool, tool_id |-> tool_id,
                                                     raised |-> TRUE])
                    /\ events' = Append(events, Ev("tool_error", tool_id, "", RaisedMsg, 0))
                    /\ shared_history' = shared_history
                                          \o ToolMessages(tool_id, tool_name, ErrorResult(RaisedMsg))
    /\ IF tool_i < Len(tool_calls_check)
       THEN tool_i' = tool_i + 1 /\ pc' = "tools"
       ELSE tool_i' = tool_i /\ pc' = "loop"
    /\ UNCHANGED <<history, user_input, tools_messages, round_index,
                   combined_response_started, response_started, buffered_chunks,
                   tool_calls_check, content_preview, backend_calls>>

\* lines 618-635: no tool requested, the answer is closed
Finish ==
    /\ UNCHANGED outsideTurn
    /\ Pulled
    /\ UNCHANGED failed_round
    /\ pc = "decided"
    /\ tool_calls_check = <<>>
    /\ LET final_text == IF buffered_chunks # <<>> THEN Join(buffered_chunks) ELSE content_preview
       IN  events' = events \o FinishEvents(combined_response_started, final_text)
    /\ combined_response_started' = TRUE
    /\ pc' = AfterAnswer
    /\ UNCHANGED <<history, user_input, shared_history, tools_messages, round_index,
                   response_started, buffered_chunks, tool_calls_check, content_preview,
                   tool_i, backend_calls, invoked>>

\* lines 637-643: the rounds are used up
Fallback ==
    /\ UNCHANGED outsideTurn
    /\ Pulled
    /\ UNCHANGED failed_round
    /\ pc = "loop"
    /\ ~LoopCondition(round_index)
    /\ events' = events \o <<StartEvent, ChunkEvent(FallbackText), EndEvent(FallbackText)>>
    /\ pc' = "done"
    /\ UNCHANGED <<history, user_input, shared_history, tools_messages, round_index,
                   combined_response_started, response_started, buffered_chunks,
                   tool_calls_check, content_preview, tool_i, backend_calls, invoked>>

Next ==
    \/ Start
    \/ StartFail
    \/ BeginRound
    \/ StreamChunk
    \/ StreamEnd
    \/ StreamFail
    \/ PlanTools
    \/ AnnounceTool
    \/ RunTool
    \/ Finish
    \/ Fallback

Spec == Init /\ [][Next]_vars

FairSpec == Spec /\ WF_vars(Next)

\* ------------------------------------------------------------------------
\* websocket_chat: the turn streamed to a connection
\* ------------------------------------------------------------------------

\* main.py lines 284-341: the event the generator yielded is sent, and the
\* loop either asks for the next one or, after an error event, is left
Send ==
    /\ websocket = "connected"
    /\ delivered < Len(events)
    /\ delivered' = delivered + 1
    /\ UNCHANGED <<websocket, turnVars, profileVars, toolVars, storeVars, sessionVars>>

\* main.py lines 184-192, 286-291: websocket.send_text raises, the connection
\* is removed from the manager and the loop over the generator is left
SendFail ==
    /\ websocket = "connected"
    /\ delivered < Len(events)
    /\ websocket' = "disconnected"
    /\ UNCHANGED <<delivered, turnVars, profileVars, toolVars, storeVars, sessionVars>>

\* a turn of a running application, started for a message of a connection
InitTransport ==
    /\ pc = "init"
    /\ history \in SeqsUpTo(Records, MaxHistory)
    /\ user_input = "q"
    /\ events = <<>>
    /\ shared_history = <<>>
    /\ tools_messages = <<>>
    /\ round_index = 0
    /\ combined_response_started = FALSE
    /\ response_started = FALSE
    /\ buffered_chunks = <<>>
    /\ tool_calls_check = <<>>
    /\ content_preview = ""
    /\ tool_i = 0
    /\ backend_calls = 0
    /\ invoked = <<>>
    /\ failed_round = 0
    /\ websocket = "connected"
    /\ delivered = 0
    /\ ppc = "running"
    /\ env = DefaultEnv
    /\ env_profiles = <<>>
    /\ llm_profiles = LoadProfiles(DefaultEnv, <<>>)
    /\ default_profile_id = DefaultProfileId(DefaultEnv, LoadProfiles(DefaultEnv, <<>>))
    /\ model_name = EnvModelName(DefaultEnv)
    /\ llm = <<[model |-> EnvModelName(DefaultEnv)]>>
    /\ mcp_success = TRUE
    /\ models_info = NoModelsInfo
    /\ llm_cache = {}
    /\ constructed = <<>>
    /\ resolved = NoResolution
    /\ ToolsRegistered
    /\ NoRecords
    /\ NoConnections

NextTransport ==
    \/ Next
    \/ Send
    \/ SendFail

SpecTransport == InitTransport /\ [][NextTransport]_vars

\* the application before its start-up, in any environment of the model
InitProfiles ==
    /\ pc = "idle"
    /\ history = <<>>
    /\ user_input = ""
    /\ events = <<>>
    /\ shared_history = <<>>
    /\ tools_messages = <<>>
    /\ round_index = 0
    /\ combined_response_started = FALSE
    /\ response_started = FALSE
    /\ buffered_chunks = <<>>
    /\ tool_calls_check = <<>>
    /\ content_preview = ""
    /\ tool_i = 0
    /\ backend_calls = 0
    /\ invoked = <<>>
    /\ failed_round = 0
    /\ websocket = "none"
    /\ delivered = 0
    /\ ppc = "boot"
    /\ env \in Environments
    /\ env_profiles \in SeqsUpTo(ProfileItems, MaxProfiles)
    /\ llm_profiles = <<>>
    /\ default_profile_id = ""
    /\ model_name = ""
    /\ llm = <<>>
    /\ mcp_success = FALSE
    /\ models_info = NoModelsInfo
    /\ llm_cache = {}
    /\ constructed = <<>>
    /\ resolved = NoResolution
    /\ NoTools
    /\ NoRecords
    /\ NoConnections

NextProfiles ==
    \/ Lifespan
    \/ ModelsInfo

SpecProfiles == InitProfiles /\ [][NextProfiles]_vars

\* the environments of the resolutions: the OPENAI_* variables set or not, one
\* or two further profiles
ResolveEnvironments ==
    {e \in Environments :
        /\ e.OPENAI_API_KEY # ""
        /\ e.OPENAI_MODEL # Unset
        /\ e.LLM_DEFAULT # "zz"
        /\ e.LLM_A_API_KEY = "sk-a"
        /\ e.LLM_A_MODEL = "m0"
        /\ e.LLM_B_API_KEY = "sk-b"
        /\ e.LLM_B_MODEL = "m1"}

ResolveItems == {"a", " b"}

\* the application before its start-up, in an environment of the resolutions
InitResolve ==
    /\ pc = "idle"
    /\ history = <<>>
    /\ user_input = ""
    /\ events = <<>>
    /\ shared_history = <<>>
    /\ tools_messages = <<>>
    /\ round_index = 0
    /\ combined_response_started = FALSE
    /\ response_started = FALSE
    /\ buffered_chunks = <<>>
    /\ tool_calls_check = <<>>
    /\ content_preview = ""
    /\ tool_i = 0
    /\ backend_calls = 0
    /\ invoked = <<>>
    /\ failed_round = 0
    /\ websocket = "none"
    /\ delivered = 0
    /\ ppc = "boot"
    /\ env \in ResolveEnvironments
    /\ env_profiles \in SeqsUpTo(ResolveItems, MaxProfiles)
    /\ llm_profiles = <<>>
    /\ default_profile_id = ""
    /\ model_name = ""
    /\ llm = <<>>
    /\ mcp_success = FALSE
    /\ models_info = NoModelsInfo
    /\ llm_cache = {}
    /\ constructed = <<>>
    /\ resolved = NoResolution
    /\ NoTools
    /\ NoRecords
    /\ NoConnections

NextResolve ==
    \/ Lifespan
    \/ Resolve

SpecResolve == InitResolve /\ [][NextResolve]_vars

\* no turn in progress
IdleTurn ==
    /\ pc = "idle"
    /\ history = <<>>
    /\ user_input = ""
    /\ events = <<>>
    /\ shared_history = <<>>
    /\ tools_messages = <<>>
    /\ round_index = 0
    /\ combined_response_started = FALSE
    /\ response_started = FALSE
    /\ buffered_chunks = <<>>
    /\ tool_calls_check = <<>>
    /\ content_preview = ""
    /\ tool_i = 0
    /\ backend_calls = 0
    /\ invoked = <<>>
    /\ failed_round = 0
    /\ websocket = "none"
    /\ delivered = 0

\* the registry of a single-model installation, before or after its start-up
DefaultProfiles(position) ==
    /\ ppc = position
    /\ env = DefaultEnv
    /\ env_profiles = <<>>
    /\ llm_profiles = LoadProfiles(DefaultEnv, <<>>)
    /\ default_profile_id = DefaultProfileId(DefaultEnv, LoadProfiles(DefaultEnv, <<>>))
    /\ model_name = EnvModelName(DefaultEnv)
    /\ llm = IF position = "running" THEN <<[model |-> EnvModelName(DefaultEnv)]>> ELSE <<>>
    /\ mcp_success = (position = "running")
    /\ models_info = NoModelsInfo
    /\ llm_cache = {}
    /\ constructed = <<>>
    /\ resolved = NoResolution

\* ------------------------------------------------------------------------
\* The tool registry
\* ------------------------------------------------------------------------

\* the tool servers of mcp.json, in the order of the file
ServerNames == <<"s1", "s2">>

\* the characters the pattern [^a-zA-Z0-9_-] leaves as they are, of those that
\* occur in the names of the model
AllowedChars == {"a", "b", "2", "_", "-"}

\* the names the servers give their tools, character by character
OriginalNames ==
    { <<"a", ".", "b">>,
      <<"a", "_", "b">>,
      <<"a", "_", "b", "_", "2">>,
      <<"b", " ">>,
      <<>> }

\* line 433: re.sub(r"[^a-zA-Z0-9_-]", "_", name)
SubChars(name) == [k \in 1..Len(name) |-> IF name[k] \in AllowedChars THEN name[k] ELSE "_"]

\* lines 433-435
Sanitized(name) ==
    LET sanitized == Join(SubChars(name))
    IN  IF sanitized = "" THEN "tool" ELSE sanitized

\* lines 438-441: the first of base, base_2, base_3, ... that is not in use
RECURSIVE Uniq(_, _, _)
Uniq(base, index, used) ==
    LET sanitized == IF index = 1 THEN base ELSE base \o "_" \o ToString(index)
    IN  IF sanitized \in used THEN Uniq(base, index + 1, used) ELSE sanitized

\* the sanitized name handed out whether it is in use or not
SanitizeAndUniqToolName_NoUniq(name, used) == Sanitized(name)

\* the numbering started at 2 whether the base is in use or not
SanitizeAndUniqToolName_FromTwo(name, used) == Uniq(Sanitized(name), 2, used)

\* lines 428-443: the name _sanitize_and_uniq_tool_name returns
SanitizeAndUniqToolName(name, used) == Uniq(Sanitized(name), 1, used)

\* lines 358-371: the tools of one server, registered one after the other;
\* the tool objects are langchain tools, whose name can be assigned
RECURSIVE RegisterTools(_, _)
RegisterTools(server_tools, used) ==
    IF server_tools = <<>> THEN <<>>
    ELSE LET original_name == Join(Head(server_tools))
             sanitized == SanitizeAndUniqToolName(Head(server_tools), used)
         IN  <<[ returned |-> sanitized,
                 name |-> IF sanitized # original_name THEN sanitized ELSE original_name ]>>
             \o RegisterTools(Tail(server_tools), used \cup {sanitized})

\* lines 352-374: the tools of the next server are fetched and registered
GetTools ==
    /\ servers_left # <<>>
    /\ \E server_tools \in SeqsUpTo(OriginalNames, MaxTools) :
        LET registered == RegisterTools(server_tools, used_tool_names)
        IN  /\ tools' = tools \o [k \in 1..Len(registered) |-> registered[k].name]
            /\ returned_names' = returned_names
                                  \o [k \in 1..Len(registered) |-> registered[k].returned]
            /\ used_tool_names' = used_tool_names
                                   \cup {registered[k].returned : k \in 1..Len(registered)}
    /\ servers_left' = Tail(servers_left)
    /\ UNCHANGED <<turnVars, transportVars, profileVars, storeVars, sessionVars>>

\* lines 375-377: get_tools raises, the server is left without tools
GetToolsFail ==
    /\ servers_left # <<>>
    /\ servers_left' = Tail(servers_left)
    /\ UNCHANGED <<tools, used_tool_names, returned_names>>
    /\ UNCHANGED <<turnVars, transportVars, profileVars, storeVars, sessionVars>>

\* initialize() of a single-model installation, about to fetch the tools
InitTools ==
    /\ IdleTurn
    /\ DefaultProfiles("boot")
    /\ tools = <<>>
    /\ used_tool_names = {}
    /\ returned_names = <<>>
    /\ servers_left = ServerNames
    /\ NoRecords
    /\ NoConnections

NextTools ==
    \/ GetTools
    \/ GetToolsFail

SpecTools == InitTools /\ [][NextTools]_vars

\* ------------------------------------------------------------------------
\* The conversation records
\* ------------------------------------------------------------------------

\* the sessions of the model
SessionIds == {"s-1", "s-2"}

Min(a, b) == IF a < b THEN a ELSE b

\* list.reverse()
Reverse(s) == [k \in 1..Len(s) |-> s[Len(s) + 1 - k]]

\* the rows of a session, by their position in the table
SessionRows(records, session) ==
    {k \in 1..Len(records) : records[k].session_id = session}

\* the ways to put the rows of a set in a sequence
Orderings(rows) ==
    {q \in [1..Cardinality(rows) -> rows] : \A i, j \in 1..Cardinality(rows) : i # j => q[i] # q[j]}

\* ORDER BY created_at DESC: rows with the same created_at come in any order
Descending(records, q) ==
    \A i, j \in 1..Len(q) : i < j => records[q[i]].created_at >= records[q[j]].created_at

\* ORDER BY created_at ASC
Ascending(records, q) ==
    \A i, j \in 1..Len(q) : i < j => records[q[i]].created_at <= records[q[j]].created_at

\* lines 274-279: the inner query: the newest rows of the session, limit at most
NewestRows(records, session, limit) ==
    {SubSeq(q, 1, Min(limit, Len(q))) :
        q \in {o \in Orderings(SessionRows(records, session)) : Descending(records, o)}}

\* lines 272-304: get_chat_history(session_id, limit) with no conversation_id:
\* the newest rows, put in ascending order by the outer query, then reversed
GetChatHistory(records, session, limit) ==
    {Reverse([k \in 1..Len(q) |-> records[q[k]]]) :
        q \in UNION {{o \in Orderings({inner[k] : k \in 1..Len(inner)}) : Ascending(records, o)} :
                        inner \in NewestRows(records, session, limit)}}

\* main.py lines 252-284: a user message of a session arrives, its history is
\* read and chat_stream builds the transcript of the turn from it
ReceiveUserMsg ==
    /\ session_id = ""
    /\ Len(chat_records) < MaxRecords
    /\ \E session \in SessionIds :
        /\ session_id' = session
        /\ history' \in GetChatHistory(chat_records, session, history_limit)
    /\ user_input' = "q" \o ToString(Len(chat_records) + 1)
    /\ shared_history' = BuildHistory(history') \o <<UserMsg(user_input')>>
    /\ UNCHANGED <<chat_records, now>>
    /\ UNCHANGED <<pc, events, tools_messages, round_index, combined_response_started,
                   response_started, buffered_chunks, tool_calls_check, content_preview,
                   tool_i, backend_calls, invoked, failed_round>>
    /\ UNCHANGED <<transportVars, profileVars, toolVars, sessionVars>>

\* main.py lines 343-379, database.py lines 168-217: the turn is over and its
\* record is inserted, created_at being the second of the insertion
SaveConversation ==
    /\ session_id # ""
    /\ \E ai_response \in {"", "r" \o ToString(Len(chat_records) + 1)}, created_at \in {now, now + 1} :
        /\ chat_records' = Append(chat_records,
                                   [ id |-> Len(chat_records) + 1,
                                     session_id |-> session_id,
                                     user_input |-> user_input,
                                     ai_response |-> ai_response,
                                     created_at |-> created_at ])
        /\ now' = created_at
    /\ session_id' = ""
    /\ UNCHANGED <<turnVars, transportVars, profileVars, toolVars, sessionVars>>

\* a running single-model installation with an empty table
InitRecords ==
    /\ IdleTurn
    /\ DefaultProfiles("running")
    /\ ToolsRegistered
    /\ NoRecords
    /\ NoConnections

NextRecords ==
    \/ ReceiveUserMsg
    \/ SaveConversation

SpecRecords == InitRecords /\ [][NextRecords]_vars

\* ------------------------------------------------------------------------
\* Connections and session contexts
\* ------------------------------------------------------------------------

\* the query parameters a connection is opened with
MsidParams == {Absent, "7", "x"}
ModelParams == {"", "a"}

\* main.py line 153: str(uuid.uuid4()), a fresh id for every connection
NewSessionId(c) == "sid-" \o ToString(c)

\* a dictionary without one of its keys
Without(f, key) == [x \in (DOMAIN f) \ {key} |-> f[x]]

\* d[key] = value
Put(f, key, value) == [x \in (DOMAIN f) \cup {key} |-> IF x = key THEN value ELSE f[x]]

\* {} as a session context: a dictionary without keys
EmptyContext == [key \in {} |-> Absent]

\* line 209: int(msid_param), which raises for text that is no number
IsInt(text) == text \in {"7"}
IntOf(text) == CASE text = "7" -> 7

\* lines 207-225: the context the msid parameter gives
MsidContext(msid_param) ==
    IF msid_param # Absent /\ msid_param # ""
    THEN IF IsInt(msid_param)
         THEN Put(EmptyContext, "msid", IntOf(msid_param))
         ELSE EmptyContext
    ELSE EmptyContext

\* the model recorded in a context of its own
RecordModel_Fresh(contexts, session, model_param) ==
    Put(contexts, session, Put(EmptyContext, "model", model_param))

\* lines 232-234: the model recorded in the context the session has
RecordModel(contexts, session, model_param) ==
    LET session_ctx == IF session \in DOMAIN contexts THEN contexts[session] ELSE EmptyContext
    IN  Put(contexts, session, Put(session_ctx, "model", model_param))

\* lines 201-242: the context of a new session
SetUpContext(contexts, session, params) ==
    LET with_msid == Put(contexts, session, MsidContext(params.msid))
    IN  IF params.model # Absent /\ params.model # ""
        THEN RecordModel(with_msid, session, params.model)
        ELSE with_msid

\* the context of a session that is over left in the store
PopContext_Keep(contexts, session) == contexts

\* line 176: session_contexts.pop(session_id, None)
PopContext(contexts, session) == Without(contexts, session)

\* line 372: session_contexts.get(current_session_id, {}).get("msid")
\* (empty: None)
Msid(contexts, session) ==
    IF session \in DOMAIN contexts /\ "msid" \in DOMAIN contexts[session]
    THEN {contexts[session]["msid"]}
    ELSE {}

\* lines 366-373: the session and the msid of the record saved for a turn
SavedRecord(contexts, session) == [session |-> session, msid |-> Msid(contexts, session)]

\* lines 166-178: ConnectionManager.disconnect
Disconnect(c) ==
    /\ active_connections' = SelectSeq(active_connections, LAMBDA x : x # c)
    /\ IF c \in DOMAIN connection_sessions
       THEN /\ connection_sessions' = Without(connection_sessions, c)
            /\ session_contexts' = PopContext(session_contexts, connection_sessions[c])
       ELSE UNCHANGED <<connection_sessions, session_contexts>>

\* lines 184-192: the handling of a send that raised
SendRaised(c) ==
    IF \E k \in 1..Len(active_connections) : active_connections[k] = c
    THEN Disconnect(c)
    ELSE UNCHANGED <<active_connections, connection_sessions, session_contexts>>

outsideSessions == <<turnVars, transportVars, profileVars, toolVars, storeVars>>

\* lines 150-155: the connection is accepted and registered under a new
\* session id
Accept(c) ==
    /\ handler[c] = "none"
    /\ \E msid_param \in MsidParams, model_param \in ModelParams :
          query_params' = [query_params EXCEPT ![c] = [msid |-> msid_param, model |-> model_param]]
    /\ active_connections' = Append(active_connections, c)
    /\ connection_sessions' = Put(connection_sessions, c, NewSessionId(c))
    /\ handler' = [handler EXCEPT ![c] = "accepted"]
    /\ UNCHANGED <<peer_open, session_contexts, saved, turns, inbox>>
    /\ UNCHANGED outsideSessions

\* lines 158-164, 199-247: session_info is sent, the context of the session is
\* set up and the handler waits for a message
Announce(c) ==
    /\ handler[c] = "accepted"
    /\ peer_open[c]
    /\ session_contexts' = SetUpContext(session_contexts, connection_sessions[c], query_params[c])
    /\ handler' = [handler EXCEPT ![c] = "receiving"]
    /\ UNCHANGED <<peer_open, query_params, active_connections, connection_sessions, saved, turns, inbox>>
    /\ UNCHANGED outsideSessions

\* lines 158-164, 184-192, 199: session_info cannot be sent; the exception
\* leaves websocket_chat
AnnounceFail(c) ==
    /\ handler[c] = "accepted"
    /\ ~peer_open[c]
    /\ SendRaised(c)
    /\ handler' = [handler EXCEPT ![c] = "ended"]
    /\ UNCHANGED <<peer_open, query_params, saved, turns, inbox>>
    /\ UNCHANGED outsideSessions

\* lines 247-284, 381-398: a message is received, an answer is to be sent
ReceiveMessage(c) ==
    /\ handler[c] = "receiving"
    /\ peer_open[c]
    /\ handler' = [handler EXCEPT ![c] = "replying"]
    /\ UNCHANGED <<peer_open, query_params, active_connections, connection_sessions,
                   session_contexts, saved, turns, inbox>>
    /\ UNCHANGED outsideSessions

\* lines 256-392: the answer has been sent: the events of a turn, whose
\* record is then saved, or the reply to a ping or to a message that is no
\* user message
Reply(c) ==
    /\ handler[c] = "replying"
    /\ peer_open[c]
    /\ handler' = [handler EXCEPT ![c] = "receiving"]
    /\ \/ saved' = saved \cup {SavedRecord(session_contexts, connection_sessions[c])}
       \/ saved' = saved
    /\ UNCHANGED <<peer_open, query_params, active_connections, connection_sessions,
                   session_contexts, turns, inbox>>
    /\ UNCHANGED outsideSessions

\* lines 184-192 with 286-291 and 363-379, or with 399-412: a send raises;
\* the loop over the events of the turn is left, the record of the turn is
\* saved and the handler waits for the next message, or (a send outside that
\* loop) the exception ends the handler
ReplyFail(c) ==
    /\ handler[c] = "replying"
    /\ ~peer_open[c]
    /\ SendRaised(c)
    /\ \/ /\ handler' = [handler EXCEPT ![c] = "receiving"]
          /\ saved' = saved \cup {SavedRecord(session_contexts', connection_sessions[c])}
       \/ /\ handler' = [handler EXCEPT ![c] = "ended"]
          /\ saved' = saved
    /\ UNCHANGED <<peer_open, query_params, turns, inbox>>
    /\ UNCHANGED outsideSessions

\* lines 247, 408-412: receive_text raises on a closed connection
ReceiveDisconnect(c) ==
    /\ handler[c] = "receiving"
    /\ ~peer_open[c]
    /\ Disconnect(c)
    /\ handler' = [handler EXCEPT ![c] = "ended"]
    /\ UNCHANGED <<peer_open, query_params, saved, turns, inbox>>
    /\ UNCHANGED outsideSessions

\* the peer closes the connection, or the connection breaks
PeerClose(c) ==
    /\ handler[c] \in {"accepted", "receiving", "replying"}
    /\ peer_open[c]
    /\ peer_open' = [peer_open EXCEPT ![c] = FALSE]
    /\ UNCHANGED <<handler, query_params, active_connections, connection_sessions,
                   session_contexts, saved, turns, inbox>>
    /\ UNCHANGED outsideSessions

\* a running single-model installation without connections
InitSessions ==
    /\ IdleTurn
    /\ DefaultProfiles("running")
    /\ ToolsRegistered
    /\ NoRecords
    /\ NoConnections

NextSessions ==
    \E c \in Conns :
        \/ Accept(c)
        \/ Announce(c)
        \/ AnnounceFail(c)
        \/ ReceiveMessage(c)
        \/ Reply(c)
        \/ ReplyFail(c)
        \/ ReceiveDisconnect(c)
        \/ PeerClose(c)

SpecSessions == InitSessions /\ [][NextSessions]_vars

\* ------------------------------------------------------------------------
\* websocket_chat: the record of a streamed turn
\* ------------------------------------------------------------------------

\* "\n".join(parts)
RECURSIVE JoinLines(_)
JoinLines(parts) ==
    IF parts = <<>> THEN ""
    ELSE IF Len(parts) = 1 THEN Head(parts)
    ELSE Head(parts) \o "\n" \o JoinLines(Tail(parts))

\* main.py lines 286-293: the events the loop has sent, which are the ones it
\* has collected from
Forwarded == SubSeq(events, 1, delivered)

\* main.py lines 325-335: conversation_data["ai_response_parts"]
AiResponseParts(forwarded) ==
    LET chunks == SelectSeq(forwarded,
                            LAMBDA e : e.type \in {"ai_response_chunk", "ai_thinking_chunk"})
    IN  [k \in 1..Len(chunks) |-> chunks[k].content]

\* main.py lines 316-323, 348: the errors of the failed entries of mcp_results
ErrorResults(forwarded) ==
    LET failed == SelectSeq(forwarded, LAMBDA e : e.type = "tool_error")
    IN  [k \in 1..Len(failed) |-> failed[k].content]

\* main.py line 350
ErrorSummary(errors) == "errors:\n" \o JoinLines(errors)

\* an answer that is the collected pieces whatever they are
AiResponse_PartsOnly(forwarded) == Join(AiResponseParts(forwarded))

\* main.py lines 343-350: the pieces joined, or the summary of the tool errors
\* when there is no piece and a tool failed
AiResponse(forwarded) ==
    IF Join(AiResponseParts(forwarded)) = "" /\ ErrorResults(forwarded) # <<>>
    THEN ErrorSummary(ErrorResults(forwarded))
    ELSE Join(AiResponseParts(forwarded))

\* main.py lines 284-341: the loop over the events is over: a send failed,
\* the generator is exhausted, or an error event has been sent
LoopLeft ==
    \/ websocket = "disconnected"
    \/ websocket = "connected" /\ delivered = Len(events) /\ pc = "done"
    \/ websocket = "connected" /\ delivered > 0 /\ events[delivered].type = "error"

\* main.py lines 247-284: a non-empty user message is received and
\* acknowledged, the history of its session is read and chat_stream is called
AcknowledgeUserMsg ==
    /\ pc = "idle"
    /\ websocket = "none"
    /\ websocket' = "connected"
    /\ \E session \in SessionIds :
        /\ session_id' = session
        /\ history' \in GetChatHistory(chat_records, session, history_limit)
    /\ user_input' = "q"
    /\ pc' = "init"
    /\ UNCHANGED <<events, shared_history, tools_messages, round_index,
                   combined_response_started, response_started, buffered_chunks,
                   tool_calls_check, content_preview, tool_i, backend_calls, invoked,
                   failed_round, delivered, chat_records, now>>
    /\ UNCHANGED <<profileVars, toolVars, sessionVars>>

\* main.py lines 184-192, 265-268, 399-412: user_msg_received cannot be sent;
\* the exception ends the handler of the connection
AcknowledgeFail ==
    /\ pc = "idle"
    /\ websocket = "none"
    /\ websocket' = "disconnected"
    /\ UNCHANGED <<delivered, turnVars, profileVars, toolVars, storeVars, sessionVars>>

\* main.py lines 343-379, database.py lines 168-217: the loop is left and the
\* record of the turn is inserted
SaveTurn ==
    /\ session_id # ""
    /\ LoopLeft
    /\ \E created_at \in {now, now + 1} :
        /\ chat_records' = Append(chat_records,
                                   [ id |-> Len(chat_records) + 1,
                                     session_id |-> session_id,
                                     user_input |-> user_input,
                                     ai_response |-> AiResponse(Forwarded),
                                     created_at |-> created_at ])
        /\ now' = created_at
    /\ session_id' = ""
    /\ UNCHANGED <<turnVars, transportVars, profileVars, toolVars, sessionVars>>

\* a running single-model installation with an empty table and a connection
\* whose handler waits for a message
InitSaved ==
    /\ IdleTurn
    /\ DefaultProfiles("running")
    /\ ToolsRegistered
    /\ NoRecords
    /\ NoConnections

NextSaved ==
    \/ AcknowledgeUserMsg
    \/ AcknowledgeFail
    \/ Next
    \/ Send
    \/ SendFail
    \/ SaveTurn

SpecSaved == InitSaved /\ [][NextSaved]_vars

\* every step of the handler is taken once it can be
FairSpecSaved == SpecSaved /\ WF_vars(NextSaved)

\* ------------------------------------------------------------------------
\* Turns of several connections, interleaved at their suspension points
\* ------------------------------------------------------------------------

\* the text a client sends, the text the backend answers it with and the
\* result of the tool run for it
UserInputOf(c) == "q-" \o ToString(c)
AnswerOf(c) == "answer-" \o ToString(c)
ToolResultOf(c) == "result-" \o ToString(c)

\* main.py lines 180-182: connection_sessions.get(websocket, "default")
GetSessionId(c) ==
    IF c \in DOMAIN connection_sessions THEN connection_sessions[c] ELSE "default"

\* mcp_agent.py lines 461-466: the model of the context of the session
\* ("": None)
TurnProfileId(contexts, session) ==
    IF session # "" /\ session \in DOMAIN contexts /\ "model" \in DOMAIN contexts[session]
    THEN contexts[session]["model"]
    ELSE ""

\* an event sent to the connection that registered first
Recipient_First(c) == IF active_connections # <<>> THEN Head(active_connections) ELSE c

\* main.py lines 256-287: the handler of a connection sends on its own websocket
Recipient(c) == c

\* main.py lines 184-186: an event of the turn of c reaches a client
Deliver(c) == inbox' = [inbox EXCEPT ![Recipient(c)] = @ \cup {c}]

\* what the steps of a turn leave alone
outsideTurns == <<handler, peer_open, query_params, active_connections,
                  connection_sessions, session_contexts, saved>>

\* main.py lines 252-284, mcp_agent.py lines 452-458: the user message is
\* acknowledged, the history of the session is read and chat_stream is called:
\* its first event is the status
BeginTurn(c) ==
    /\ handler[c] = "replying"
    /\ turns[c].pc = "none"
    /\ peer_open[c]
    /\ Len(chat_records) + Cardinality({x \in Conns : turns[x].pc # "none"}) < MaxRecords
    /\ Deliver(c)
    /\ \E h \in GetChatHistory(chat_records, GetSessionId(c), history_limit) :
          turns' = [turns EXCEPT ![c] = [NoTurn EXCEPT !.pc = "resolve",
                                                       !.session = GetSessionId(c),
                                                       !.user_input = UserInputOf(c),
                                                       !.history = h,
                                                       !.pending = <<StatusEvent>>]]
    /\ UNCHANGED outsideTurns
    /\ UNCHANGED outsideSessions

\* main.py lines 184-192, 265-268, 399-412: user_msg_received cannot be sent
AcknowledgeFailOf(c) ==
    /\ handler[c] = "replying"
    /\ turns[c].pc = "none"
    /\ ~peer_open[c]
    /\ SendRaised(c)
    /\ handler' = [handler EXCEPT ![c] = "ended"]
    /\ UNCHANGED <<peer_open, query_params, saved, turns, inbox>>
    /\ UNCHANGED outsideSessions

\* main.py lines 284-335: the event chat_stream yielded is sent and collected
EmitEvent(c) ==
    /\ handler[c] = "replying"
    /\ turns[c].pending # <<>>
    /\ peer_open[c]
    /\ Deliver(c)
    /\ turns' = [turns EXCEPT ![c].pending = Tail(@),
                              ![c].forwarded = Append(@, Head(turns[c].pending))]
    /\ UNCHANGED outsideTurns
    /\ UNCHANGED outsideSessions

\* main.py lines 184-192, 286-291: the send raises and the loop is left
TurnSendFail(c) ==
    /\ handler[c] = "replying"
    /\ turns[c].pending # <<>>
    /\ ~peer_open[c]
    /\ SendRaised(c)
    /\ turns' = [turns EXCEPT ![c].pending = <<>>, ![c].pc = "left"]
    /\ UNCHANGED <<handler, peer_open, query_params, saved, inbox>>
    /\ UNCHANGED outsideSessions

\* mcp_agent.py lines 460-478, 644-649: the profile of the session is read,
\* its clients are resolved and the transcript is built, or the resolution
\* raises and the turn ends with an error event
ResolveTurn(c) ==
    /\ handler[c] = "replying"
    /\ turns[c].pc = "resolve"
    /\ turns[c].pending = <<>>
    /\ GetOrCreateLlmInstances(TurnProfileId(session_contexts, turns[c].session))
    /\ turns' = IF resolved'.outcome = "returned"
                THEN [turns EXCEPT ![c].pc = "decide",
                                   ![c].pid = resolved'.pid,
                                   ![c].shared_history =
                                        BuildHistory(turns[c].history)
                                            \o <<UserMsg(turns[c].user_input)>>]
                ELSE [turns EXCEPT ![c].pc = "over", ![c].pending = <<ErrorEvent>>]
    /\ UNCHANGED <<ppc, env_profiles, llm_profiles, default_profile_id, model_name,
                   llm, mcp_success, models_info>>
    /\ UNCHANGED <<turnVars, transportVars, toolVars, storeVars>>
    /\ UNCHANGED outsideTurns
    /\ UNCHANGED inbox

\* mcp_agent.py lines 484-552, 600-635: the decision call on the transcript of
\* the turn returns a tool-call request or the answer
DecideTurn(c) ==
    /\ handler[c] = "replying"
    /\ turns[c].pc = "decide"
    /\ turns[c].pending = <<>>
    /\ \/ /\ turns[c].exchanges < MaxExchanges
          /\ turns' = [turns EXCEPT ![c].pc = "tool",
                                    ![c].shared_history = Append(@, AssistantMsg("", <<PlainRequest>>)),
                                    ![c].pending = <<ToolPlanEvent(1),
                                                     Ev("tool_start", PlainRequest.id,
                                                        PlainRequest.name, PlainRequest.args.v, 0)>>]
       \/ turns' = [turns EXCEPT ![c].pc = "over",
                                 ![c].pending = <<StartEvent, ChunkEvent(AnswerOf(c)),
                                                  EndEvent(AnswerOf(c))>>]
    /\ UNCHANGED inbox
    /\ UNCHANGED outsideTurns
    /\ UNCHANGED outsideSessions

\* mcp_agent.py lines 576-598: the tool is run and its result joins the
\* transcript of the turn
RunToolOf(c) ==
    /\ handler[c] = "replying"
    /\ turns[c].pc = "tool"
    /\ turns[c].pending = <<>>
    /\ turns' = [turns EXCEPT ![c].pc = "decide",
                              ![c].exchanges = @ + 1,
                              ![c].shared_history =
                                    Append(@, ToolMsg(PlainRequest.id, PlainRequest.name,
                                                      ToolResultOf(c))),
                              ![c].pending = <<Ev("tool_end", PlainRequest.id,
                                                  PlainRequest.name, ToolResultOf(c), 0)>>]
    /\ UNCHANGED inbox
    /\ UNCHANGED outsideTurns
    /\ UNCHANGED outsideSessions

\* main.py lines 343-379, database.py lines 168-217: the loop over the events
\* is left, the record of the turn is inserted (a second or more after the
\* record before) and the handler waits for the next message
SaveTurnOf(c) ==
    /\ handler[c] = "replying"
    /\ turns[c].pc \in {"over", "left"}
    /\ turns[c].pending = <<>>
    /\ chat_records' = Append(chat_records,
                               [ id |-> Len(chat_records) + 1,
                                 session_id |-> turns[c].session,
                                 user_input |-> turns[c].user_input,
                                 ai_response |-> AiResponse(turns[c].forwarded),
                                 created_at |-> now + 1 ])
    /\ now' = now + 1
    /\ saved' = saved \cup {SavedRecord(session_contexts, turns[c].session)}
    /\ turns' = [turns EXCEPT ![c] = NoTurn]
    /\ handler' = [handler EXCEPT ![c] = "receiving"]
    /\ UNCHANGED <<peer_open, query_params, active_connections, connection_sessions,
                   session_contexts, inbox, session_id>>
    /\ UNCHANGED <<turnVars, transportVars, profileVars, toolVars>>

\* the environment of an installation with the profiles default and a
ProfiledEnv ==
    [DefaultEnv EXCEPT !["LLM_A_API_KEY"] = "sk-a", !["LLM_A_MODEL"] = "m1"]

\* lines 150-155, 201-242 for the connections 1 to n, made in this order
RECURSIVE ContextsOf(_, _)
ContextsOf(n, params) ==
    IF n = 0 THEN EmptyContext
    ELSE SetUpContext(ContextsOf(n - 1, params), NewSessionId(n), params[n])

\* a running installation with two profiles and with its connections made,
\* each with some model in its query and its handler waiting for a message
InitInterleaved ==
    /\ IdleTurn
    /\ ppc = "running"
    /\ env = ProfiledEnv
    /\ env_profiles = <<"a">>
    /\ llm_profiles = LoadProfiles(ProfiledEnv, <<"a">>)
    /\ default_profile_id = DefaultProfileId(ProfiledEnv, LoadProfiles(ProfiledEnv, <<"a">>))
    /\ model_name = EnvModelName(ProfiledEnv)
    /\ llm = <<[model |-> EnvModelName(ProfiledEnv)]>>
    /\ mcp_success = TRUE
    /\ models_info = NoModelsInfo
    /\ llm_cache = {}
    /\ constructed = <<[pid |-> "default", by |-> "initialize"]>>
    /\ resolved = NoResolution
    /\ ToolsRegistered
    /\ NoRecords
    /\ handler = [c \in Conns |-> "receiving"]
    /\ peer_open = [c \in Conns |-> TRUE]
    /\ query_params \in [Conns -> [msid : {Absent}, model : ModelParams]]
    /\ active_connections = [c \in Conns |-> c]
    /\ connection_sessions = [c \in Conns |-> NewSessionId(c)]
    /\ session_contexts = ContextsOf(MaxConnections, query_params)
    /\ saved = {}
    /\ turns = [c \in Conns |-> NoTurn]
    /\ inbox = [c \in Conns |-> {}]

NextInterleaved ==
    \E c \in Conns :
        \/ ReceiveMessage(c)
        \/ BeginTurn(c)
        \/ AcknowledgeFailOf(c)
        \/ EmitEvent(c)
        \/ TurnSendFail(c)
        \/ ResolveTurn(c)
        \/ DecideTurn(c)
        \/ RunToolOf(c)
        \/ SaveTurnOf(c)
        \/ ReceiveDisconnect(c)
        \/ PeerClose(c)

SpecInterleaved == InitInterleaved /\ [][NextInterleaved]_vars

\* ------------------------------------------------------------------------
\* Properties of a turn
\* ------------------------------------------------------------------------

Last(s) == s[Len(s)]

CountType(type) == Cardinality({k \in 1..Len(events) : events[k].type = type})

ToolEventTypes == {"tool_plan", "tool_start", "tool_end", "tool_error"}

\* the positions of the assistant messages that carry tool-call requests
ToolCallRounds ==
    {k \in 1..Len(shared_history) :
        shared_history[k].role = "assistant" /\ shared_history[k].tool_calls # <<>>}

\* the tool messages that must follow the assistant message at k by now
Due(k) ==
    IF pc \in {"tools", "invoke"} /\ \A j \in ToolCallRounds : j <= k
    THEN tool_i - 1
    ELSE Len(shared_history[k].tool_calls)

IsNotFoundMsg(m) == m.role = "tool" /\ m.content = ErrorResult(NotFoundMsg(m.name))
IsRaisedMsg(m) == m.role = "tool" /\ m.content = ErrorResult(RaisedMsg)

\* C1: every turn that ends by a direct answer, an answer after tools, the
\* round-limit fallback or a failed decision call (every turn that ends without
\* an error event) has emitted exactly one ai_response_start and exactly one
\* ai_response_end.
C1_ExactlyOneStartAndEnd ==
    (pc = "done" /\ CountType("error") = 0)
        => /\ CountType("ai_response_start") = 1
           /\ CountType("ai_response_end") = 1

\* C2: when a round whose decision call returned tool-call requests is followed
\* by another decision call, the transcript of that call is the transcript of the
\* round with one assistant tool-call message and one tool message per request
\* appended, in request order, and nothing before them changed.
C2_TranscriptAppendOnly ==
    [][(pc = "loop" /\ pc' = "decide" /\ round_index >= 1)
        => LET calls == tool_calls_check
               n == Len(calls)
               old == Len(tools_messages)
           IN  /\ Len(tools_messages') = old + 1 + n
               /\ SubSeq(tools_messages', 1, old) = tools_messages
               /\ tools_messages'[old + 1] = AssistantMsg("", calls)
               /\ \A k \in 1..n :
                    /\ tools_messages'[old + 1 + k].role = "tool"
                    /\ tools_messages'[old + 1 + k].tool_call_id = ToolId(calls[k], k)
                    /\ tools_messages'[old + 1 + k].name = calls[k].name]_vars

C2_Witness ==
    /\ pc = "decide"
    /\ round_index = 2
    /\ Len(tools_messages) >= 4
    /\ IsRaisedMsg(tools_messages[Len(tools_messages) - 1])
    /\ IsNotFoundMsg(tools_messages[Len(tools_messages)])

\* C3: every tool invocation that raised has its tool_error event with the
\* call's tool_id and its tool message with that call id, in the order of the
\* invocations, and the requests after it in the round got their tool messages
\* too.
C3_RaisedToolIsReported ==
    LET raised == SelectSeq(invoked, LAMBDA e : e.raised)
        errors == SelectSeq(events, LAMBDA e : e.type = "tool_error" /\ e.content = RaisedMsg)
        msgs == SelectSeq(shared_history, IsRaisedMsg)
    IN  /\ Len(errors) = Len(raised)
        /\ Len(msgs) = Len(raised)
        /\ \A k \in 1..Len(raised) :
             /\ errors[k].tool_id = raised[k].tool_id
             /\ msgs[k].tool_call_id = raised[k].tool_id
        /\ \A k \in ToolCallRounds :
             (\E j \in 1..Len(shared_history[k].tool_calls) :
                 k + j <= Len(shared_history) /\ IsRaisedMsg(shared_history[k + j]))
             => /\ k + Due(k) <= Len(shared_history)
                /\ \A j \in 1..Due(k) : shared_history[k + j].role = "tool"

C3_Witness ==
    /\ pc = "loop"
    /\ \E k \in ToolCallRounds :
         /\ Len(shared_history[k].tool_calls) = 2
         /\ IsRaisedMsg(shared_history[k + 1])
         /\ shared_history[k + 2].content = OkResult
    /\ \E k \in 1..Len(events) : events[k].type = "tool_error" /\ events[k].tool_id = "call_1"

\* C4: every turn comes to its end, and at its end the last event is
\* ai_response_end or error.
C4_TurnTerminates ==
    /\ <>(pc = "done")
    /\ [](pc = "done" => events # <<>> /\ Last(events).type \in {"ai_response_end", "error"})

C4_Witness ==
    /\ pc = "done"
    /\ CountType("tool_error") > 0
    /\ Last(events).type = "ai_response_end"

\* C5: a turn makes at most max_rounds decision calls; a turn in which every
\* one of max_rounds rounds requested tools ends, without a further decision
\* call and without an error event, by streaming the fallback message.
C5_RoundLimit ==
    /\ backend_calls <= max_rounds
    /\ (pc = "done" /\ CountType("tool_plan") = max_rounds)
         => /\ backend_calls = max_rounds
            /\ CountType("error") = 0
            /\ Len(events) >= 3
            /\ events[Len(events) - 1] = ChunkEvent(FallbackText)
            /\ events[Len(events)].type = "ai_response_end"

C5_Witness ==
    /\ pc = "done"
    /\ CountType("tool_plan") = max_rounds
    /\ Len(invoked) = max_rounds

\* the scenario of C6: two decision calls, the first streamed nothing and
\* requested one registered tool, which returned, the second requested no tool
C6_Scenario ==
    /\ pc = "done"
    /\ backend_calls = 2
    /\ Cardinality(ToolCallRounds) = 1
    /\ \A k \in ToolCallRounds :
         /\ Len(shared_history[k].tool_calls) = 1
         /\ k + 1 = Len(shared_history)
         /\ shared_history[k + 1].content = OkResult
    /\ invoked # <<>>
    /\ \A k \in 1..Len(events) :
         events[k].type = "ai_response_chunk"
            => \E j \in 1..(k - 1) : events[j].type = "tool_plan"

\* C6: in that scenario the events are status, tool_plan, tool_start, tool_end
\* with the result, ai_response_start, any number of ai_response_chunk,
\* ai_response_end.
C6_OneToolScenario ==
    C6_Scenario
        => /\ Len(events) >= 6
           /\ events[1].type = "status"
           /\ events[2].type = "tool_plan"
           /\ events[3].type = "tool_start"
           /\ events[4].type = "tool_end"
           /\ events[4].content = OkResult
           /\ events[5].type = "ai_response_start"
           /\ \A k \in 6..(Len(events) - 1) : events[k].type = "ai_response_chunk"
           /\ Last(events).type = "ai_response_end"

C6_Witness ==
    /\ C6_Scenario
    /\ Len(events) = 7
    /\ events[6] = ChunkEvent("final")

\* C7: once the first decision call has ended with no tool-call request, the
\* next step ends the turn: one backend call was made, the last event is
\* ai_response_end after one ai_response_start, and no tool event was emitted.
C7_DirectAnswer ==
    [][(pc = "decided" /\ round_index = 1 /\ tool_calls_check = <<>>)
        => /\ pc' = "done"
           /\ backend_calls' = 1
           /\ Last(events').type = "ai_response_end"
           /\ \A k \in 1..Len(events') : events'[k].type \notin ToolEventTypes
           /\ \E k \in 1..Len(events') : events'[k].type = "ai_response_start"]_vars

C7_Witness ==
    /\ pc = "done"
    /\ round_index = 1
    /\ backend_calls = 1
    /\ CountType("ai_response_chunk") = 1
    /\ Last(events).type = "ai_response_end"
    /\ invoked = <<>>

\* what C8 says of a request whose tool is not registered, up to the end of
\* its round: a tool_error event with the not-found message, no invocation, the
\* synthesized error string as its tool message, the other requests answered
C8_NotFoundInRound ==
    /\ \A k \in 1..Len(shared_history) :
         (shared_history[k].role = "tool" /\ shared_history[k].name \notin ToolNames)
            => IsNotFoundMsg(shared_history[k])
    /\ Len(invoked)
         = Cardinality({k \in 1..Len(shared_history) :
                           shared_history[k].role = "tool" /\ shared_history[k].name \in ToolNames})
    /\ \A k \in 1..Len(invoked) : invoked[k].name \in ToolNames
    /\ Cardinality({k \in 1..Len(events) :
                       events[k].type = "tool_error" /\ events[k - 1].type = "tool_start"
                       /\ events[k].content = NotFoundMsg(events[k - 1].tool_name)
                       /\ events[k].tool_id = events[k - 1].tool_id
                       /\ events[k - 1].tool_name \notin ToolNames})
         = Cardinality({k \in 1..Len(shared_history) : IsNotFoundMsg(shared_history[k])})
    /\ \A k \in ToolCallRounds :
         /\ k + Due(k) <= Len(shared_history)
         /\ \A j \in 1..Due(k) :
              /\ shared_history[k + j].role = "tool"
              /\ shared_history[k + j].name = shared_history[k].tool_calls[j].name

C9_NoUsableProfileRefuses ==
    (ppc # "boot" /\ \A k \in 1..Len(llm_profiles) : ~Usable(llm_profiles[k]))
        => /\ mcp_success = FALSE
           /\ llm = <<>>
           /\ ppc = "refused"

\* the (endpoint, model_name) pair of the profile with this id
PairOf(pid) ==
    LET cfg == ProfileOf(llm_profiles, pid) IN <<cfg.base_url, cfg.model>>

PositionOf(pid) == CHOOSE k \in 1..Len(llm_profiles) : llm_profiles[k].id = pid

\* the profiles get_models_info chooses from: the non-default ones, or the
\* default one when there is no other
Shown ==
    IF \E k \in 1..Len(llm_profiles) : llm_profiles[k].id # "default"
    THEN {k \in 1..Len(llm_profiles) : llm_profiles[k].id # "default"}
    ELSE 1..Len(llm_profiles)

\* C10: no two listed entries have the same (endpoint, model_name) pair, the
\* listed entry of a pair is the first profile with that pair, in profile
\* order, and every pair of the profiles to show is listed.
C10_OneEntryPerPair ==
    models_info # NoModelsInfo
        => LET models == models_info.models
           IN  /\ \A i, j \in 1..Len(models) :
                    i # j => PairOf(models[i].id) # PairOf(models[j].id)
               /\ \A i \in 1..Len(models) :
                    /\ PositionOf(models[i].id) \in Shown
                    /\ \A k \in Shown :
                         PairOf(llm_profiles[k].id) = PairOf(models[i].id)
                            => PositionOf(models[i].id) <= k
               /\ \A k \in Shown :
                    \E i \in 1..Len(models) : PairOf(models[i].id) = PairOf(llm_profiles[k].id)

C10_Witness ==
    /\ models_info # NoModelsInfo
    /\ Len(models_info.models) = 1
    /\ Len(llm_profiles) = 3
    /\ llm_profiles[2].id = "b"
    /\ models_info.models[1].id = "b"

\* ------------------------------------------------------------------------
\* Failures of the decision call
\* ------------------------------------------------------------------------

\* C11: a turn whose decision call raised in the very first round has made a
\* further backend call, the direct answer, by the time it ends.
C11_FirstRoundFailureAnswered ==
    (pc = "done" /\ failed_round = 1) => backend_calls >= 2

\* C12: a turn whose decision call raised in a round after the first ends with
\* an error event, and makes no backend call after the one that raised.
C12_LaterFailureIsAnError ==
    (pc = "done" /\ failed_round > 1)
        => /\ Last(events).type = "error"
           /\ backend_calls = failed_round

\* ------------------------------------------------------------------------
\* The order of the tool executions
\* ------------------------------------------------------------------------

\* the transcript ends with the assistant message of the round and the tool
\* messages of its first n requests, in request order
RoundAnswered(h, calls, n) ==
    /\ Len(h) >= n + 1
    /\ h[Len(h) - n] = AssistantMsg("", calls)
    /\ \A j \in 1..n :
         /\ h[Len(h) - n + j].role = "tool"
         /\ h[Len(h) - n + j].tool_call_id = ToolId(calls[j], j)
         /\ h[Len(h) - n + j].name = calls[j].name

\* C18: the request at tool_i is looked up and invoked only when the tool
\* messages of the requests before it, and nothing else, follow the assistant
\* message of the round; its step dispatches at most that one invocation and
\* appends its tool message, and goes on to the request after it; and a
\* decision call that follows a round with requests is made only when the
\* assistant message and the tool messages of all requests have been appended.
C18_ToolsInRequestOrder ==
    [][/\ pc = "invoke"
          => /\ RoundAnswered(shared_history, tool_calls_check, tool_i - 1)
             /\ RoundAnswered(shared_history', tool_calls_check, tool_i)
             /\ Len(shared_history') = Len(shared_history) + 1
             /\ \/ invoked' = invoked
                \/ /\ Len(invoked') = Len(invoked) + 1
                   /\ SubSeq(invoked', 1, Len(invoked)) = invoked
                   /\ Last(invoked').tool_id = ToolId(tool_calls_check[tool_i], tool_i)
                   /\ Last(invoked').name = tool_calls_check[tool_i].name
             /\ IF tool_i < Len(tool_calls_check)
                THEN pc' = "tools" /\ tool_i' = tool_i + 1
                ELSE pc' = "loop"
       /\ (pc = "loop" /\ pc' = "decide" /\ round_index >= 1)
          => /\ RoundAnswered(shared_history, tool_calls_check, Len(tool_calls_check))
             /\ tools_messages' = <<SystemMsg>> \o shared_history
       /\ (pc # "invoke") => invoked' = invoked]_vars

C18_Witness ==
    /\ pc = "loop"
    /\ round_index = 1
    /\ Len(invoked) = 2
    /\ invoked[1].tool_id = "call_1"
    /\ invoked[2].tool_id = "call_a"
    /\ invoked[1].raised
    /\ RoundAnswered(shared_history, tool_calls_check, 2)

\* C19: at every moment of a turn, at most one ai_response_start has been
\* emitted.
C19_AtMostOneStart == CountType("ai_response_start") <= 1

\* ------------------------------------------------------------------------
\* Properties of the streamed turn
\* ------------------------------------------------------------------------

\* C13: once a send has failed, no further event of the turn is sent, the loop
\* makes no further backend call and no further tool call and yields nothing
\* more; and no step, before or after, takes a dispatched tool invocation back.
C13_NoCallAfterSendFailure ==
    [][/\ websocket = "disconnected"
          => /\ delivered' = delivered
             /\ backend_calls' = backend_calls
             /\ invoked' = invoked
             /\ events' = events
       /\ Len(invoked') >= Len(invoked)
       /\ SubSeq(invoked', 1, Len(invoked)) = invoked]_vars

C13_Witness ==
    /\ websocket = "disconnected"
    /\ Len(invoked) = 1
    /\ pc = "tools"
    /\ tool_i = 2
    /\ delivered = Len(events) - 1
    /\ Last(events).type = "tool_end"

\* the listing holds an entry for the profile "default"
DefaultListed ==
    \E i \in 1..Len(models_info.models) : models_info.models[i].id = "default"

NonDefaultCount ==
    Cardinality({k \in 1..Len(llm_profiles) : llm_profiles[k].id # "default"})

\* a request for the profile "default" is resolved to that profile
DefaultResolvable ==
    /\ "default" \in ProfileIdSet(llm_profiles)
    /\ ResolveId("default", llm_profiles, default_profile_id) = "default"

\* C15 as stated: the listing leaves out the profile "default" exactly when
\* more than one non-default profile exists, and a request for "default" is
\* resolved to it in every case.
C15_DefaultHiddenAboveOne ==
    models_info # NoModelsInfo
        => /\ ~DefaultListed <=> NonDefaultCount > 1
           /\ DefaultResolvable

\* C15 amended: the listing leaves out the profile "default" exactly when at
\* least one non-default profile exists, and a request for "default" is
\* resolved to it in every case.
C15_DefaultHiddenAboveNone ==
    models_info # NoModelsInfo
        => /\ ~DefaultListed <=> NonDefaultCount >= 1
           /\ DefaultResolvable

C15_Witness ==
    /\ models_info # NoModelsInfo
    /\ NonDefaultCount = 1
    /\ Usable(ProfileOf(llm_profiles, "default"))
    /\ Len(models_info.models) = 1
    /\ ~DefaultListed

\* ------------------------------------------------------------------------
\* Properties of the profile resolution
\* ------------------------------------------------------------------------

\* the ids of the profiles that have an api key and a model name, in order
UsableIds ==
    LET usable == SelectSeq(llm_profiles, Usable)
    IN  [k \in 1..Len(usable) |-> usable[k].id]

\* the profile C14 names for a requested id, when some profile is usable
ExpectedId(profile_id) ==
    IF profile_id \in ProfileIdSet(llm_profiles) /\ Usable(ProfileOf(llm_profiles, profile_id))
    THEN profile_id
    ELSE IF Usable(ProfileOf(llm_profiles, default_profile_id))
    THEN default_profile_id
    ELSE Head(UsableIds)

\* C14: a resolution returns the bundle of the requested profile when that
\* profile exists and has an api key and a model name, else that of the
\* configured default profile, else, when the default has not both, that of the
\* first profile that has; and it fails when no profile has both.
C14_ResolutionPrefersValid ==
    resolved.outcome # "none"
        => IF UsableIds # <<>>
           THEN resolved.outcome = "returned" => resolved.pid = ExpectedId(resolved.requested)
           ELSE resolved.outcome = "raised"

\* the constructions of clients that were made for the profile pid
ConstructionsOf(pid) == {k \in 1..Len(constructed) : constructed[k].pid = pid}

\* C20: the clients of a profile id are constructed at most once in the life
\* of the process, and a resolution that returns hands out the bundle the
\* cache holds for that id.
C20_BuiltAtMostOncePerId ==
    /\ \A pid \in ProfileIdSet(llm_profiles) : Cardinality(ConstructionsOf(pid)) <= 1
    /\ resolved.outcome = "returned"
         => [pid |-> resolved.pid, bundle |-> Head(resolved.bundle)] \in llm_cache

\* ------------------------------------------------------------------------
\* Properties of the tool registry
\* ------------------------------------------------------------------------

PairwiseDistinct(names) == \A i, j \in 1..Len(names) : i # j => names[i] # names[j]

\* C16: the names _sanitize_and_uniq_tool_name has returned are pairwise
\* different and all in the set of used names, the names of the registered
\* tools are pairwise different, and the set of used names only grows.
C16_NamesNeverHandedOutTwice ==
    /\ [](/\ PairwiseDistinct(returned_names)
          /\ {returned_names[k] : k \in 1..Len(returned_names)} \subseteq used_tool_names
          /\ PairwiseDistinct(tools))
    /\ [][used_tool_names \subseteq used_tool_names']_vars

C16_Witness ==
    /\ servers_left = <<>>
    /\ tools = <<"a_b", "a_b_2", "a_b_2_2", "tool">>
    /\ returned_names = tools

\* ------------------------------------------------------------------------
\* Properties of the conversation records
\* ------------------------------------------------------------------------

\* the records of the session were saved in different seconds
DistinctSeconds(session) ==
    \A i, j \in SessionRows(chat_records, session) :
        i # j => chat_records[i].created_at # chat_records[j].created_at

\* C17: the history handed to chat_stream (of a session whose records were
\* saved in different seconds) holds the records of the session in the order
\* in which they were saved, the oldest first, and its last record is the most
\* recent one of the session.
C17_HistoryIsChronological ==
    (session_id # "" /\ DistinctSeconds(session_id))
        => /\ \A i, j \in 1..Len(history) : i < j => history[i].id < history[j].id
           /\ history # <<>>
                => \A k \in SessionRows(chat_records, session_id) : k <= Last(history).id

\* ------------------------------------------------------------------------
\* Failures inside chat_stream
\* ------------------------------------------------------------------------

Positions == {"init", "loop", "decide", "decided", "tools", "invoke", "done"}

\* C22: no failure of a tool invocation or of a decision call leaves
\* chat_stream as an exception: the generator stays at one of its positions, a
\* tool that raised has its tool_error event and the round goes on (its tool
\* message is recorded and the turn is not over at that event), and a turn in
\* which a decision call or a tool failed ends with ai_response_end or error as
\* its last event, the failed decision call having been the last one.
C22_FailuresAreAbsorbed ==
    /\ pc \in Positions
    /\ \A k \in 1..Len(invoked) :
         invoked[k].raised
            => /\ \E j \in 1..Len(events) :
                    /\ events[j].type = "tool_error"
                    /\ events[j].tool_id = invoked[k].tool_id
               /\ \E j \in 1..Len(shared_history) :
                    /\ IsRaisedMsg(shared_history[j])
                    /\ shared_history[j].tool_call_id = invoked[k].tool_id
    /\ (invoked # <<>> /\ Last(invoked).raised /\ Last(events).type = "tool_error")
          => pc # "done"
    /\ failed_round # 0
          => /\ pc \in {"decided", "done"}
             /\ backend_calls = failed_round
    /\ (pc = "done" /\ (failed_round # 0 \/ \E k \in 1..Len(invoked) : invoked[k].raised))
          => Last(events).type \in {"ai_response_end", "error"}

C22_Witness ==
    /\ pc = "done"
    /\ failed_round = 2
    /\ Len(invoked) = 2
    /\ invoked[1].raised
    /\ ~invoked[2].raised
    /\ CountType("ai_response_chunk") = 1
    /\ Last(events).type = "ai_response_end"

\* the transcript the construction of lines 471-478 must give: the records
\* laid out as user and assistant messages in turn, the assistant messages of
\* empty answers taken out
ExpectedHistory(h) ==
    LET laid_out == [k \in 1..(2 * Len(h)) |->
                        IF k % 2 = 1
                        THEN UserMsg(h[(k + 1) \div 2].user_input)
                        ELSE AssistantMsg(h[k \div 2].ai_response, <<>>)]
    IN  SelectSeq(laid_out, LAMBDA m : m.role = "user" \/ m.content # "")

Added == SubSeq(events', Len(events) + 1, Len(events'))

\* at the end of a decision call: the call has streamed content (a round
\* starts after a status, tool_end or tool_error event, and only content
\* pieces are emitted during the call)
StreamedThisCall == events # <<>> /\ Last(events).type = "ai_response_chunk"

\* C24: when a decision call has ended with tool-call requests, the step that
\* follows emits the tool_plan, preceded by a paragraph-break chunk if and only
\* if that decision call streamed at least one content chunk, and emits nothing
\* else.
C24_BreakIffStreamed ==
    [][(pc = "decided" /\ tool_calls_check # <<>>)
        => /\ Added # <<>>
           /\ Last(Added) = ToolPlanEvent(Len(tool_calls_check))
           /\ IF StreamedThisCall
              THEN Added = <<ChunkEvent(ParagraphBreak), Last(Added)>>
              ELSE Len(Added) = 1]_vars

C24_Witness ==
    /\ pc = "tools"
    /\ tool_i = 1
    /\ round_index = 1
    /\ Len(events) = 5
    /\ events[3] = ChunkEvent("a")
    /\ events[4] = ChunkEvent(ParagraphBreak)
    /\ events[5].type = "tool_plan"

\* C25: when a decision call has ended with no tool-call request, the step that
\* closes the answer sends no chunk when the call's content was streamed, at
\* most one chunk otherwise, and an ai_response_end that carries no content: no
\* piece is delivered twice.
C25_NoDuplicateContent ==
    [][(pc = "decided" /\ tool_calls_check = <<>>)
        => LET chunks == SelectSeq(Added, LAMBDA e : e.type = "ai_response_chunk")
           IN  /\ Len(chunks) <= 1
               /\ StreamedThisCall => chunks = <<>>
               /\ buffered_chunks # <<>> => chunks = <<>>
               /\ Last(Added) = EndEvent("")]_vars

C25_Witness ==
    /\ pc = "done"
    /\ round_index = 1
    /\ failed_round = 0
    /\ buffered_chunks = <<"a">>
    /\ content_preview = "a"
    /\ events = <<StatusEvent, StartEvent, ChunkEvent("a"), EndEvent("")>>

\* C28: no ai_response_chunk carrying content of a decision call that contains
\* a tool call is ever emitted: before a tool_plan event, no content chunk has
\* been emitted since the round began.
C28_NoTextOfToolCallingCall ==
    \A k \in 1..Len(events) :
        events[k].type = "tool_plan"
           => \A j \in 1..(k - 1) :
                 (events[j].type = "ai_response_chunk" /\ events[j].content # ParagraphBreak)
                    => \E m \in (j + 1)..(k - 1) : events[m].type \in {"tool_end", "tool_error"}

\* ------------------------------------------------------------------------
\* Arguments and ids of tool requests
\* ------------------------------------------------------------------------

\* the arguments a tool_start event must carry for the raw arguments of the
\* request, case by case
ExpectedArgs(raw) ==
    CASE raw = [t |-> "str", v |-> "{bad"] -> "$raw={bad"
      [] raw = [t |-> "str", v |-> ""]     -> ""
      [] raw.t = "dict"                    -> raw.v

\* C26: a request whose arguments are a string that is not JSON has the
\* sentinel mapping with key "$raw" for arguments, a mapping passes unchanged
\* and the empty string becomes the empty mapping; the tool_start event
\* carries these arguments, and the lookup, the invocation of a registered
\* tool and the tool message follow whatever the arguments were.
C26_ArgumentsParsed ==
    [][/\ pc = "tools"
          => /\ pc' = "invoke"
             /\ Last(events').type = "tool_start"
             /\ Last(events').content = ExpectedArgs(tool_calls_check[tool_i].args)
       /\ pc = "invoke"
          => /\ Last(events).type = "tool_start"
             /\ Last(events').type \in {"tool_end", "tool_error"}
             /\ Last(events').tool_id = Last(events).tool_id
             /\ shared_history' = Append(shared_history, Last(shared_history'))
             /\ Last(shared_history').role = "tool"
             /\ Last(shared_history').tool_call_id = Last(events).tool_id
             /\ tool_calls_check[tool_i].name \in ToolNames
                   => Len(invoked') = Len(invoked) + 1]_vars

C26_Witness ==
    /\ pc = "loop"
    /\ round_index = 1
    /\ Len(tool_calls_check) = 1
    /\ tool_calls_check[1].args = [t |-> "str", v |-> "{bad"]
    /\ events[3].type = "tool_start"
    /\ events[3].content = "$raw={bad"
    /\ events[4].type = "tool_end"
    /\ Len(invoked) = 1
    /\ Last(shared_history) = ToolMsg("call_1", "search", OkResult)

\* C30: in every round, the k-th tool message carries a tool_call_id equal to
\* the id of the k-th request as it appears in the round's assistant message.
C30_ToolMessageIdsMatchRequests ==
    \A k \in ToolCallRounds :
        \A j \in 1..Due(k) :
            /\ k + j <= Len(shared_history)
            /\ shared_history[k + j].role = "tool"
            /\ shared_history[k + j].tool_call_id = shared_history[k].tool_calls[j].id

\* ------------------------------------------------------------------------
\* The names of the tool registry
\* ------------------------------------------------------------------------

\* the characters of ^[A-Za-z0-9_-]+$ that occur in names and suffixes
PatternChars == {"a", "b", "t", "o", "l", "_", "-"} \cup {ToString(d) : d \in 0..9}

Matches(chars) == chars # <<>> /\ \A k \in 1..Len(chars) : chars[k] \in PatternChars

\* the sanitized base of each original name, character by character
ExpectedBase(name) ==
    CASE name = <<"a", ".", "b">>           -> <<"a", "_", "b">>
      [] name = <<"a", "_", "b">>           -> <<"a", "_", "b">>
      [] name = <<"a", "_", "b", "_", "2">> -> <<"a", "_", "b", "_", "2">>
      [] name = <<"b", " ">>                -> <<"b", "_">>
      [] name = <<>>                        -> <<"t", "o", "o", "l">>

\* base for 1, base_k for k >= 2
Candidate(base, k) == IF k = 1 THEN base ELSE base \o <<"_", ToString(k)>>

\* C27: whatever names are in use, _sanitize_and_uniq_tool_name returns the
\* sanitized base when it was never used and otherwise base_k for the smallest
\* k >= 2 such that base_k was never used; the result matches
\* ^[A-Za-z0-9_-]+$, and a name that is valid and not in use is returned
\* unchanged.
C27_SanitizedAndUnique ==
    \A name \in OriginalNames :
        LET result == SanitizeAndUniqToolName(name, used_tool_names)
            base == ExpectedBase(name)
        IN  /\ \E k \in 1..(Cardinality(used_tool_names) + 1) :
                 /\ result = Join(Candidate(base, k))
                 /\ Matches(Candidate(base, k))
                 /\ result \notin used_tool_names
                 /\ \A j \in 1..(k - 1) : Join(Candidate(base, j)) \in used_tool_names
            /\ (Matches(name) /\ Join(name) \notin used_tool_names) => result = Join(name)

C27_Witness ==
    /\ {"a_b", "a_b_2"} \subseteq used_tool_names
    /\ Len(returned_names) >= 3
    /\ returned_names[3] = "a_b_3"
    /\ SanitizeAndUniqToolName(<<"a", "_", "b", "_", "2">>, used_tool_names) = "a_b_2_2"
    /\ SanitizeAndUniqToolName(<<>>, used_tool_names) = "tool"

\* ------------------------------------------------------------------------
\* Properties of the session contexts
\* ------------------------------------------------------------------------

HasContext(session) == session \in DOMAIN session_contexts

\* the connection is registered with the manager
Active(c) == \E k \in 1..Len(active_connections) : active_connections[k] = c

\* C21: no session context remains for a session whose connection has been
\* closed (its handler has ended, or the manager has dropped it after a send
\* that failed), and every connection that is open and set up has a context
\* under its session id.
C21_ContextLivesWithConnection ==
    /\ \A c \in Conns :
         /\ handler[c] = "ended" => ~HasContext(NewSessionId(c))
         /\ (handler[c] # "none" /\ ~Active(c)) => ~HasContext(NewSessionId(c))
         /\ (handler[c] \in {"receiving", "replying"} /\ peer_open[c])
               => /\ Active(c)
                  /\ c \in DOMAIN connection_sessions
                  /\ HasContext(connection_sessions[c])
    /\ \A session \in DOMAIN session_contexts :
         \E c \in DOMAIN connection_sessions : connection_sessions[c] = session /\ Active(c)

C21_Witness ==
    /\ handler[1] = "receiving"
    /\ ~peer_open[1]
    /\ ~Active(1)
    /\ query_params[1].msid = "7"
    /\ ~HasContext(NewSessionId(1))
    /\ handler[2] = "replying"
    /\ peer_open[2]
    /\ HasContext(NewSessionId(2))

\* the context of the session of c is what it was
ContextUntouched(c) ==
    /\ HasContext(NewSessionId(c))' <=> HasContext(NewSessionId(c))
    /\ HasContext(NewSessionId(c)) => session_contexts'[NewSessionId(c)] = session_contexts[NewSessionId(c)]

\* C29: a step of one connection (its set-up, its disconnection, a send of
\* its that fails) leaves the context of every other session as it was, and
\* the set-up of a session records the model given for it without losing the
\* msid recorded for it.
C29_OnlyTheNamedSession ==
    [][\A c \in Conns :
          /\ handler'[c] = handler[c] => ContextUntouched(c)
          /\ (handler[c] = "accepted" /\ handler'[c] = "receiving")
                => LET ctx == session_contexts'[NewSessionId(c)]
                   IN  /\ query_params[c].model = "a"
                             => ("model" \in DOMAIN ctx /\ ctx["model"] = "a")
                       /\ query_params[c].msid = "7"
                             => ("msid" \in DOMAIN ctx /\ ctx["msid"] = 7)
                       /\ query_params[c].msid # "7" => "msid" \notin DOMAIN ctx
                       /\ query_params[c].model # "a" => "model" \notin DOMAIN ctx]_vars

C29_Witness ==
    /\ handler[1] = "ended"
    /\ handler[2] = "receiving"
    /\ query_params[2] = [msid |-> "7", model |-> "a"]
    /\ DOMAIN session_contexts = {NewSessionId(2)}
    /\ DOMAIN session_contexts[NewSessionId(2)] = {"msid", "model"}
    /\ session_contexts[NewSessionId(2)]["msid"] = 7
    /\ query_params[1].msid = "7"

\* ------------------------------------------------------------------------
\* The events of a turn
\* ------------------------------------------------------------------------

\* C32: when a decision call has ended with no tool-call request and its final
\* output has content, the step that closes the answer has that content
\* delivered before ai_response_end: it was streamed during the call, or it is
\* sent as one chunk.
C32_FinalContentDelivered ==
    [][(pc = "decided" /\ tool_calls_check = <<>> /\ content_preview # "")
        => /\ Last(Added).type = "ai_response_end"
           /\ \/ StreamedThisCall
              \/ \E k \in 1..(Len(Added) - 1) : Added[k] = ChunkEvent(content_preview)]_vars

\* the tool_start events after the tool_plan at k, up to the next tool_plan
StartsOfPlan(k) ==
    {j \in (k + 1)..Len(events) :
        /\ events[j].type = "tool_start"
        /\ \A m \in (k + 1)..j : events[m].type # "tool_plan"}

\* the tool executions announced by the tool_plan at k are over
PlanCompleted(k) ==
    \/ pc \notin {"tools", "invoke"}
    \/ \E j \in (k + 1)..Len(events) : events[j].type = "tool_plan"

\* C35: every tool_start event is followed at once by one tool_end or
\* tool_error event with its tool_id (while the invocation is pending it is the
\* last event), every tool_end and tool_error follows its tool_start, and the
\* tool_start events of a round are as many as the tool_count of its tool_plan.
C35_StartsAndResultsPaired ==
    \A k \in 1..Len(events) :
        /\ events[k].type = "tool_start"
              => IF k = Len(events)
                 THEN pc = "invoke"
                 ELSE /\ events[k + 1].type \in {"tool_end", "tool_error"}
                      /\ events[k + 1].tool_id = events[k].tool_id
        /\ events[k].type \in {"tool_end", "tool_error"}
              => /\ k > 1
                 /\ events[k - 1].type = "tool_start"
        /\ events[k].type = "tool_plan"
              => /\ Cardinality(StartsOfPlan(k)) <= events[k].count
                 /\ PlanCompleted(k) => Cardinality(StartsOfPlan(k)) = events[k].count

C35_Witness ==
    /\ pc = "loop"
    /\ round_index = 1
    /\ Len(events) = 6
    /\ events[2] = ToolPlanEvent(2)
    /\ events[3].type = "tool_start"
    /\ events[3].tool_id = "call_1"
    /\ events[4].type = "tool_error"
    /\ events[4].tool_id = "call_1"
    /\ events[5].type = "tool_start"
    /\ events[6].type = "tool_end"

Terminating == {"ai_response_end", "error"}

\* C36: the terminating event (ai_response_end or error) is the last event of
\* the turn, a turn holds at most one terminating event and never both kinds,
\* and every ai_response_chunk comes after an ai_response_start.
C36_TerminatingEventIsLast ==
    /\ \A k \in 1..Len(events) :
         /\ events[k].type \in Terminating => (k = Len(events) /\ pc = "done")
         /\ events[k].type = "ai_response_chunk"
               => \E j \in 1..(k - 1) : events[j].type = "ai_response_start"
    /\ CountType("ai_response_end") + CountType("error") <= 1

C36_Witness ==
    /\ pc = "done"
    /\ round_index = 2
    /\ CountType("ai_response_chunk") = 2
    /\ CountType("tool_end") = 1
    /\ CountType("ai_response_end") = 1
    /\ Last(events) = EndEvent("")

\* C40: the tool messages of a turn that is over were all in the transcript of
\* a decision call, and no tool is dealt with in a round after which the loop
\* makes no further decision call.
C40_ToolResultsAreSeen ==
    /\ pc \in {"tools", "invoke"} => LoopCondition(round_index)
    /\ pc = "done"
          => \A k \in 1..Len(shared_history) :
                shared_history[k].role = "tool"
                   => /\ k + 1 <= Len(tools_messages)
                      /\ tools_messages[k + 1] = shared_history[k]

\* ------------------------------------------------------------------------
\* The registry, the environment and the reported default
\* ------------------------------------------------------------------------

\* C33: building the client bundle of a profile leaves the environment
\* variables OPENAI_API_KEY and OPENAI_BASE_URL with the values they had before
\* the call, being unset included.
C33_EnvironmentRestored ==
    [][ppc = "running"
        => /\ env'["OPENAI_API_KEY"] = env["OPENAI_API_KEY"]
           /\ env'["OPENAI_BASE_URL"] = env["OPENAI_BASE_URL"]]_vars

\* C34: a turn of a session that selected no model, or a model id that does
\* not exist, is resolved to the profile get_models_info reports as the
\* default.
C34_ReportedDefaultIsUsed ==
    (resolved.outcome # "none" /\ resolved.requested \in {"", "zz"})
        => resolved.pid = GetModelsInfo(llm_profiles, default_profile_id).default

\* C38: whenever get_models_info returns a non-empty list, exactly one listed
\* entry has is_default set, and its id is the returned default id.
C38_OneDefaultEntry ==
    models_info.models # <<>>
        => LET marked == SelectSeq(models_info.models, LAMBDA entry : entry.is_default)
           IN  /\ Len(marked) = 1
               /\ marked[1].id = models_info.default

\* the connection of a session
ConnOf(session) == CHOOSE c \in Conns : NewSessionId(c) = session

\* C39: every record saved for a turn carries the msid recorded for its
\* session when the connection was established with a valid msid.
C39_SavedRecordCarriesMsid ==
    \A record \in saved :
        query_params[ConnOf(record.session)].msid = "7" => record.msid = {7}

\* ------------------------------------------------------------------------
\* Properties of the record of a turn
\* ------------------------------------------------------------------------

\* the contents of the ai_response_chunk events sent on the connection, joined
\* in the order of their emission
ChunksForwarded ==
    Join([k \in 1..Len(SelectSeq(Forwarded, LAMBDA e : e.type = "ai_response_chunk")) |->
            SelectSeq(Forwarded, LAMBDA e : e.type = "ai_response_chunk")[k].content])

\* the errors of the tool_error events sent on the connection, in their order
ToolErrorsForwarded ==
    [k \in 1..Len(SelectSeq(Forwarded, LAMBDA e : e.type = "tool_error")) |->
        SelectSeq(Forwarded, LAMBDA e : e.type = "tool_error")[k].content]

\* C31 as stated: the ai_response of the record saved for a turn is the
\* concatenation, in emission order, of the contents of the ai_response_chunk
\* events forwarded during the turn.
C31_ResponseIsTheChunks ==
    \A k \in 1..Len(chat_records) : chat_records[k].ai_response = ChunksForwarded

\* C31: for every non-empty user message whose acknowledgement was sent, exactly
\* one record is saved for the turn, also when the turn ends with an error event
\* or when a send of one of its events fails; its ai_response is the
\* concatenation, in emission order, of the contents of the ai_response_chunk
\* events forwarded during the turn, or, when that is empty and a tool_error
\* event was forwarded, the summary of the forwarded tool errors.
C31_OneRecordOfTheTurn ==
    /\ [](/\ Len(chat_records) <= 1
          /\ \A k \in 1..Len(chat_records) :
                /\ chat_records[k].user_input = user_input
                /\ chat_records[k].ai_response =
                      IF ChunksForwarded = "" /\ ToolErrorsForwarded # <<>>
                      THEN ErrorSummary(ToolErrorsForwarded)
                      ELSE ChunksForwarded)
    /\ (session_id # "") ~> (Len(chat_records) = 1)

\* a record is saved with the pieces sent before a send failed
C31_Witness ==
    /\ Len(chat_records) = 1
    /\ websocket = "disconnected"
    /\ delivered < Len(events)
    /\ chat_records[1].ai_response = ChunksForwarded
    /\ ChunksForwarded # ""

\* ------------------------------------------------------------------------
\* Properties of interleaved turns
\* ------------------------------------------------------------------------

\* the model asked for when connection c was made ("": none)
ModelAskedBy(c) ==
    IF query_params[c].model \in {Absent, ""} THEN "" ELSE query_params[c].model

\* the texts that belong to the turns of connection c
TextsOf(c) == {UserInputOf(c), AnswerOf(c), ToolResultOf(c)}

\* the turn of c has resolved its profile and built its transcript
Deciding(c) == turns[c].pc \in {"decide", "tool"} \/ (turns[c].pc = "over" /\ turns[c].pid # "")

\* C37: when turns of different sessions interleave at their suspension points,
\* the transcript of each decision call holds only messages of its own turn
\* (the history of its own session, its own user input and its own tool
\* exchanges), the events of each turn reach only its own connection, and the
\* profile a turn uses is the one recorded for its own session.
C37_TurnsAreIsolated ==
    \A c \in Conns :
        /\ \A k \in 1..Len(turns[c].history) :
                turns[c].history[k].session_id = NewSessionId(c)
        /\ \A k \in 1..Len(turns[c].shared_history) :
                LET m == turns[c].shared_history[k]
                IN  \/ m.content \in TextsOf(c)
                    \/ m.role = "assistant" /\ m.content = "" /\ m.tool_calls # <<>>
        /\ Deciding(c) =>
                /\ turns[c].shared_history # <<>>
                /\ turns[c].session = NewSessionId(c)
                /\ turns[c].pid = ResolveId(ModelAskedBy(c), llm_profiles, default_profile_id)
        /\ inbox[c] \subseteq {c}

\* two turns run at once with different profiles, one on the history of its
\* session and past a tool exchange, after events of both were sent
C37_Witness ==
    /\ turns[1].pc = "decide"
    /\ turns[1].history # <<>>
    /\ turns[1].exchanges = 1
    /\ turns[2].pc = "tool"
    /\ turns[1].pid # turns[2].pid
    /\ inbox[1] = {1}
    /\ inbox[2] = {2}

====
